---- MODULE Spec2Model ----
(***************************************************************************)
(* jpathpy: selections over JSON-shaped trees (class JSelection) and the   *)
(* JPath query language compiled to JSelection calls (parse.py, JPath).    *)
(*                                                                         *)
(* Values of the input trees live in a heap of nodes; a selection holds    *)
(* references (node ids) to them, as the Python tuples hold references.    *)
(* The fluent session keeps the selection it has reached; the object       *)
(* session keeps every selection object built, to compare them.            *)
(***************************************************************************)
EXTENDS Integers, Sequences, FiniteSets, TLC

VARIABLES sel, last, steps, objs, stored, threads, index

vars == <<sel, last, steps, objs, stored, threads, index>>

(***************************************************************************)
(* Bounds of the model.                                                    *)
(***************************************************************************)
\* longest root selection built by the JSelection constructor
MaxItems == 2
\* longest fluent chain of operators applied to one root selection
MaxSteps == 1
\* integers used as indices range over -MaxIdx .. MaxIdx
MaxIdx == 3
\* a filter predicate is described for positions 0 .. MaxPos - 1
MaxPos == 3

(***************************************************************************)
(* The heap: the input documents.  A node is a JSON value; kids are the    *)
(* elements of an array or the values of an object, keys the object's keys *)
(* in insertion order.  The variable stored holds, for every array or      *)
(* object of the documents that was assigned into, its elements now; the   *)
(* variable objs the selection objects built so far, in order of creation. *)
(***************************************************************************)
JObj(ks, vs) == [t |-> "obj", n |-> 0, s |-> "", keys |-> ks, kids |-> vs]
JArr(vs)     == [t |-> "arr", n |-> 0, s |-> "", keys |-> <<>>, kids |-> vs]
JStr(x)      == [t |-> "str", n |-> 0, s |-> x, keys |-> <<>>, kids |-> <<>>]
JInt(x)      == [t |-> "int", n |-> x, s |-> "", keys |-> <<>>, kids |-> <<>>]
JBool(x)     == [t |-> "bool", n |-> x, s |-> "", keys |-> <<>>, kids |-> <<>>]
JNull        == [t |-> "null", n |-> 0, s |-> "", keys |-> <<>>, kids |-> <<>>]

Documents ==
  <<
    \* 1: {"a":[1,2,3],"b":{"a":1}}
    JObj(<<"a", "b">>, <<2, 6>>),
    JArr(<<3, 4, 5>>), JInt(1), JInt(2), JInt(3),
    JObj(<<"a">>, <<7>>), JInt(1),
    \* 8: [{"a":{"k":1}}, {"b":2,"k":"abc"}]
    JArr(<<9, 12>>),
    JObj(<<"a">>, <<10>>), JObj(<<"k">>, <<11>>), JInt(1),
    JObj(<<"b", "k">>, <<13, 14>>), JInt(2), JStr("abc"),
    \* 15: [[{"k":false}], null]
    JArr(<<16, 18>>),
    JArr(<<17>>), JObj(<<"k">>, <<19>>), JNull, JBool(0),
    \* 20: {"a":{"a":1},"b":2}
    JObj(<<"a", "b">>, <<21, 23>>),
    JObj(<<"a">>, <<22>>), JInt(1), JInt(2)
  >>

\* the documents docs with the writes w made to them
Overlay(docs, w) ==
  IF DOMAIN w = {} THEN docs
  ELSE [n \in DOMAIN docs |->
          IF n \in DOMAIN w THEN [docs[n] EXCEPT !.kids = w[n]] ELSE docs[n]]

\* the values as they are now
Heap == Overlay(Documents, stored)

Nodes == 1 .. Len(Documents)

\* the documents a root selection is built from
Tops == {1, 2, 8, 14, 15, 20}

Keys == {"a", "b", "k"}

(***************************************************************************)
(* Helpers on sequences.                                                   *)
(***************************************************************************)
RECURSIVE BSeq(_, _)
BSeq(S, n) == IF n = 0 THEN {<<>>}
              ELSE BSeq(S, n - 1) \cup
                   {Append(q, x) : q \in {r \in BSeq(S, n - 1) : Len(r) = n - 1}, x \in S}

Range(q) == {q[i] : i \in 1 .. Len(q)}

RECURSIVE Flatten(_)
Flatten(qq) == IF qq = <<>> THEN <<>> ELSE Head(qq) \o Flatten(Tail(qq))

\* a sum that puts the items of value first
SelUnionRight(a, b) == b \o a

\* JSelection.__add__: self._items + tuple(value)
SelUnion(a, b) == a \o b

(***************************************************************************)
(* JSelection.meta: the type sets of a selection.  A keyword argument left *)
(* out (None) or given empty is the empty set.                             *)
(***************************************************************************)
\* isinstance(x, collections.Iterable) holds of lists, dicts and strings
IterableTags == {"arr", "obj", "str"}

NoKw ==
  [iters_by_key |-> {}, ex_iters_by_key |-> {}, iters_by_idx |-> {},
   ex_iters_by_idx |-> {}]

\* JSelection.__init__: self.meta = {name: argument or default}
MetaOf(kw) ==
  [iters_by_key |-> IF kw.iters_by_key = {} THEN {"obj"} ELSE kw.iters_by_key,
   ex_iters_by_key |-> kw.ex_iters_by_key,
   iters_by_idx |-> IF kw.iters_by_idx = {} THEN IterableTags ELSE kw.iters_by_idx,
   ex_iters_by_idx |-> IF kw.ex_iters_by_idx = {} THEN {"obj", "str"}
                       ELSE kw.ex_iters_by_idx]

\* JSelection.__init__(*items, root, **kw) of the object created after those
\* of os; root 0 is None.  self.meta["root"] = root or self, and a selection
\* without items is falsy (__len__)
JSelection(os, items, root, kw) ==
  [items |-> items,
   root |-> IF root = 0 THEN Len(os) + 1
            ELSE IF os[root].items = <<>> THEN Len(os) + 1 ELSE root,
   meta |-> MetaOf(kw)]

\* a new selection built with the root of self and no other keyword argument
DerivedDefaults(os, self, items) == JSelection(os, items, os[self].root, NoKw)

\* a new selection built without the root of self
DerivedRootless(os, self, items) == JSelection(os, items, 0, os[self].meta)

\* self.__class__(*items, **self.meta), self the object os[self]
Derived(os, self, items) == JSelection(os, items, os[self].root, os[self].meta)

\* the selection an operator runs on is the newest object
Self == objs[Len(objs)]

iters_by_key == Self.meta.iters_by_key
ex_iters_by_key == Self.meta.ex_iters_by_key
iters_by_idx == Self.meta.iters_by_idx
ex_iters_by_idx == Self.meta.ex_iters_by_idx

IsByKey(n) == Heap[n].t \in iters_by_key /\ Heap[n].t \notin ex_iters_by_key
IsByIdx(n) == Heap[n].t \in iters_by_idx /\ Heap[n].t \notin ex_iters_by_idx

\* key in d
HasKey(n, k) == \E i \in 1 .. Len(Heap[n].keys) : Heap[n].keys[i] = k
\* d[key]
GetKey(n, k) ==
  Heap[n].kids[CHOOSE i \in 1 .. Len(Heap[n].keys) : Heap[n].keys[i] = k]
\* [d[k] for k in d], or the elements of a list
Kids(n) == Heap[n].kids

(***************************************************************************)
(* Index arguments of i() and el(): an int, a list of ints or a slice.     *)
(* An absent slice bound (None) is the empty sequence.                     *)
(***************************************************************************)
IntIdx(x)   == [kind |-> "int", i |-> x, list |-> <<>>, lo |-> <<>>, hi |-> <<>>, st |-> <<>>]
ListIdx(xs) == [kind |-> "list", i |-> 0, list |-> xs, lo |-> <<>>, hi |-> <<>>, st |-> <<>>]
SliceIdx(a, b, c) == [kind |-> "slice", i |-> 0, list |-> <<>>, lo |-> a, hi |-> b, st |-> c]

\* the result of a call: the exception it raised ("" when none) and its value
\* (calls: the positions at which a filter called its predicate)
Ok(v)     == [exc |-> "", out |-> v, calls |-> <<>>]
Raise(e)  == [exc |-> e, out |-> <<>>, calls |-> <<>>]

\* __getitem__ without the negative indices
GetItemNonNegative(items, idx) ==
  IF idx >= 0 /\ idx < Len(items) THEN Ok(<<items[idx + 1]>>) ELSE Raise("IndexError")

\* JSelection.__getitem__ with an int: tuple indexing, negative indices count
\* from the end, IndexError outside -len .. len-1
GetItem(items, idx) ==
  IF idx >= 0 /\ idx < Len(items) THEN Ok(<<items[idx + 1]>>)
  ELSE IF idx < 0 /\ idx >= 0 - Len(items) THEN Ok(<<items[Len(items) + idx + 1]>>)
  ELSE Raise("IndexError")

\* slice.indices(len) as tuple.__getitem__ applies it
SliceStart(len, lo, step) ==
  IF lo = <<>> THEN (IF step > 0 THEN 0 ELSE len - 1)
  ELSE LET a == IF lo[1] < 0 THEN lo[1] + len ELSE lo[1]
       IN IF a < 0 THEN (IF step > 0 THEN 0 ELSE 0 - 1)
          ELSE IF a >= len THEN (IF step > 0 THEN len ELSE len - 1)
          ELSE a

SliceStop(len, hi, step) ==
  IF hi = <<>> THEN (IF step > 0 THEN len ELSE 0 - 1)
  ELSE LET a == IF hi[1] < 0 THEN hi[1] + len ELSE hi[1]
       IN IF a < 0 THEN (IF step > 0 THEN 0 ELSE 0 - 1)
          ELSE IF a >= len THEN (IF step > 0 THEN len ELSE len - 1)
          ELSE a

\* JSelection.__getitem__ with a slice; a zero step is a ValueError
GetSlice(items, ix) ==
  LET step  == IF ix.st = <<>> THEN 1 ELSE ix.st[1]
      len   == Len(items)
      start == SliceStart(len, ix.lo, step)
      stop  == SliceStop(len, ix.hi, step)
      cnt   == IF step > 0
               THEN (IF start < stop THEN ((stop - start - 1) \div step) + 1 ELSE 0)
               ELSE (IF start > stop THEN ((start - stop - 1) \div (0 - step)) + 1 ELSE 0)
  IN IF step = 0 THEN Raise("ValueError")
     ELSE Ok([j \in 1 .. cnt |-> items[start + (j - 1) * step + 1]])

(***************************************************************************)
(* JSelection.i                                                            *)
(***************************************************************************)
RECURSIVE PickList(_, _, _)
\* for idx in indices: try: jselection += (self[idx],)  except IndexError: pass
PickList(items, idxs, acc) ==
  IF idxs = <<>> THEN Ok(acc)
  ELSE LET r == GetItem(items, Head(idxs))
       IN IF r.exc = "" THEN PickList(items, Tail(idxs), acc \o r.out)
          ELSE IF r.exc = "IndexError" THEN PickList(items, Tail(idxs), acc)
          ELSE r

SelI(items, ix) ==
  IF ix.kind = "list" THEN PickList(items, ix.list, <<>>)
  ELSE LET r == IF ix.kind = "int" THEN GetItem(items, ix.i) ELSE GetSlice(items, ix)
       IN IF r.exc = "IndexError" THEN Ok(<<>>) ELSE r

(***************************************************************************)
(* JSelection.el                                                           *)
(***************************************************************************)
RECURSIVE ElReduce(_, _, _)
ElReduce(items, ix, acc) ==
  IF items = <<>> THEN Ok(acc)
  ELSE LET item == Head(items)
           r == IF IsByIdx(item) THEN SelI(Kids(item), ix) ELSE Ok(<<>>)
       IN IF r.exc # "" THEN r ELSE ElReduce(Tail(items), ix, acc \o r.out)

SelEl(items, ix) == ElReduce(items, ix, <<>>)

(***************************************************************************)
(* JSelection.exp                                                          *)
(***************************************************************************)
RECURSIVE ExpReduce(_, _)
\* exp that drops the items it does not expand, as el does
SelExpDropping(items) ==
  Ok(Flatten([i \in 1 .. Len(items) |->
                IF IsByIdx(items[i]) THEN Kids(items[i]) ELSE <<>>]))

ExpReduce(items, acc) ==
  IF items = <<>> THEN acc
  ELSE ExpReduce(Tail(items),
                 IF IsByIdx(Head(items)) THEN acc \o Kids(Head(items))
                 ELSE acc \o <<Head(items)>>)

SelExp(items) == Ok(ExpReduce(items, <<>>))

(***************************************************************************)
(* JSelection._select, one, all                                            *)
(***************************************************************************)
RECURSIVE select(_, _, _, _, _), ReduceSelect(_, _, _, _, _),
          ReduceAccum(_, _, _, _, _), accum_selections(_, _, _, _, _),
          SelectItems(_, _, _, _)

\* select with the deep recursion run before the object's own value is added
select_postorder(jselection, from, key, deep, all) ==
  IF IsByKey(from)
  THEN LET rec == IF deep THEN ReduceAccum(Kids(from), jselection, key, deep, all)
                  ELSE jselection
       IN IF ~all
          THEN rec \o (IF HasKey(from, key) THEN <<GetKey(from, key)>> ELSE <<>>)
          ELSE rec \o Kids(from)
  ELSE IF IsByIdx(from)
  THEN ReduceSelect(Kids(from), jselection, key, deep, all)
  ELSE jselection

\* select that in deep mode only descends and leaves out the object's own value
select_descending(jselection, from, key, deep, all) ==
  IF IsByKey(from)
  THEN LET own == IF ~all
                  THEN jselection \o (IF HasKey(from, key) THEN <<GetKey(from, key)>> ELSE <<>>)
                  ELSE jselection \o Kids(from)
       IN IF deep
          THEN ReduceAccum(Kids(from), jselection, key, deep, all)
          ELSE own
  ELSE IF IsByIdx(from)
  THEN ReduceSelect(Kids(from), jselection, key, deep, all)
  ELSE jselection

\* select that goes through the elements of an array but not into the arrays
\* among them
select_one_level(jselection, from, key, deep, all) ==
  IF IsByKey(from)
  THEN LET own == IF ~all
                  THEN jselection \o (IF HasKey(from, key) THEN <<GetKey(from, key)>> ELSE <<>>)
                  ELSE jselection \o Kids(from)
       IN IF deep
          THEN ReduceAccum(IF ~all THEN Kids(from) ELSE own, own, key, deep, all)
          ELSE own
  ELSE IF IsByIdx(from)
  THEN ReduceSelect(SelectSeq(Kids(from), LAMBDA x : ~IsByIdx(x)), jselection, key,
                    deep, all)
  ELSE jselection

\* the nested function select(jselection, select_from)
select(jselection, from, key, deep, all) ==
  IF IsByKey(from)
  THEN LET own == IF ~all
                  THEN jselection \o (IF HasKey(from, key) THEN <<GetKey(from, key)>> ELSE <<>>)
                  ELSE jselection \o Kids(from)
       IN IF deep
          THEN ReduceAccum(IF ~all THEN Kids(from) ELSE own, own, key, deep, all)
          ELSE own
  ELSE IF IsByIdx(from)
  THEN ReduceSelect(Kids(from), jselection, key, deep, all)
  ELSE jselection

\* the lambda accum_selections(jselection, appended_item)
accum_selections(jselection, item, key, deep, all) ==
  jselection \o (IF ~deep THEN <<item>> ELSE SelectItems(<<item>>, key, deep, all))

\* reduce(select, xs, init)
ReduceSelect(xs, init, key, deep, all) ==
  IF xs = <<>> THEN init
  ELSE ReduceSelect(Tail(xs), select(init, Head(xs), key, deep, all), key, deep, all)

\* reduce(accum_selections, xs, init)
ReduceAccum(xs, init, key, deep, all) ==
  IF xs = <<>> THEN init
  ELSE ReduceAccum(Tail(xs), accum_selections(init, Head(xs), key, deep, all), key, deep, all)

\* _select: reduce(select, self, ())
SelectItems(items, key, deep, all) == ReduceSelect(items, <<>>, key, deep, all)

SelOne(items, key, deep) == Ok(SelectItems(items, key, deep, FALSE))
SelAll(items, deep) == Ok(SelectItems(items, "", deep, TRUE))

(***************************************************************************)
(* JSelection.filter.  A predicate is given by its outcome at each         *)
(* position: "T" a truthy value, "F" a falsy value, "E" an exception (a    *)
(* subclass of Exception, which is what the handler catches).  Positions   *)
(* the description does not reach are falsy.                               *)
(***************************************************************************)
Outcomes == {"T", "F", "E"}
Preds == [0 .. MaxPos - 1 -> Outcomes]

PredAt(pred, pos) == IF pos \in DOMAIN pred THEN pred[pos] ELSE "F"

\* the wrapper _(args): the predicate's value, or None when it raised
\* (try: return func(...)  except Exception: pass)
FilterCall(pred, pos) ==
  IF PredAt(pred, pos) = "E" THEN "F" ELSE PredAt(pred, pos)

RECURSIVE FilterFrom(_, _, _, _)
\* filter(_, enumerate(self)) followed by map(lambda x : x[1], ...)
FilterFrom(items, pred, pos, acc) ==
  IF pos >= Len(items) THEN acc
  ELSE FilterFrom(items, pred, pos + 1,
                  [exc |-> "",
                   out |-> IF FilterCall(pred, pos) = "T"
                           THEN Append(acc.out, items[pos + 1]) ELSE acc.out,
                   calls |-> Append(acc.calls, pos)])

\* filter without the handler: the first exception of the predicate ends it
SelFilterNoHandler(items, pred) ==
  IF \E pos \in 0 .. Len(items) - 1 : PredAt(pred, pos) = "E"
  THEN LET first == CHOOSE pos \in 0 .. Len(items) - 1 :
                      /\ PredAt(pred, pos) = "E"
                      /\ \A q \in 0 .. pos - 1 : PredAt(pred, q) # "E"
       IN [exc |-> "Exception", out |-> <<>>, calls |-> [j \in 1 .. first + 1 |-> j - 1]]
  ELSE FilterFrom(items, pred, 0, Ok(<<>>))

SelFilter(items, pred) == FilterFrom(items, pred, 0, Ok(<<>>))

(***************************************************************************)
(* The lexer's tokens (lex.py): a query is the sequence of tokens that     *)
(* ply.lex makes of its text.  value is t.value: s for the tokens whose    *)
(* value is a string, n for INT.                                           *)
(***************************************************************************)
Tok(type, s, n) == [type |-> type, s |-> s, n |-> n]

tROOT   == Tok("ROOT", "$", 0)
tAT     == Tok("AT", "@", 0)
tDOT    == Tok("SIMPLESELECTOR", ".", 0)
tDEEP   == Tok("DEEPSELECTOR", "..", 0)
tLSQ    == Tok("LSQUAREPAREN", "[", 0)
tRSQ    == Tok("RSQUAREPAREN", "]", 0)
tLPAR   == Tok("LPAREN", "(", 0)
tRPAR   == Tok("RPAREN", ")", 0)
tCOMMA  == Tok("DELIMPARAMS", ",", 0)
tSLICE  == Tok("SLICE", ":", 0)
tMINUS  == Tok("MINUS", "-", 0)
tPLUS   == Tok("PLUS", "+", 0)
tMULT   == Tok("MULT", "*", 0)
tUNION  == Tok("UNION", "|", 0)
tTRUE   == Tok("TRUE", "True", 1)
tFALSE  == Tok("FALSE", "False", 0)
tNULL   == Tok("NULL", "None", 0)
tINT(x) == Tok("INT", "", x)
tSTRING(x)   == Tok("STRING", x, 0)
tFUNCNAME(x) == Tok("FUNCNAME", x, 0)
\* EQ NE LT LE GT GE, DIV MOD, AND OR: the token's value is its text
tOP(type, x) == Tok(type, x, 0)

TypeAt(toks, pos) == IF pos <= Len(toks) THEN toks[pos].type ELSE "$end"

(***************************************************************************)
(* ply.lex on the rules of lex.py.  A text is the sequence of its          *)
(* characters.  At each position the rules are tried in ply's order: the   *)
(* rules that are functions in the order of the file (AND, OR, FLOAT, INT, *)
(* TRUE, FALSE, NULL, STRING, newline), then the rules that are strings,   *)
(* the longest pattern first (FUNCNAME, "..", "<=", ">=", "!=", the single *)
(* characters); the first rule that matches gives the token.               *)
(***************************************************************************)
Lowers == <<"a", "b", "c", "d", "e", "f", "g", "h", "i", "j", "k", "l", "m",
            "n", "o", "p", "q", "r", "s", "t", "u", "v", "w", "x", "y", "z">>
Uppers == <<"A", "B", "C", "D", "E", "F", "G", "H", "I", "J", "K", "L", "M",
            "N", "O", "P", "Q", "R", "S", "T", "U", "V", "W", "X", "Y", "Z">>
Digits == <<"0", "1", "2", "3", "4", "5", "6", "7", "8", "9">>

UpperSet == {Uppers[i] : i \in 1 .. 26}
LetterSet == UpperSet \cup {Lowers[i] : i \in 1 .. 26}
DigitSet == {Digits[i] : i \in 1 .. 10}

IsUpper(c) == c \in UpperSet
IsLetter(c) == c \in LetterSet
IsDigit(c) == c \in DigitSet
DigitOf(c) == (CHOOSE i \in 1 .. 10 : c = Digits[i]) - 1
\* the characters below U+0020
IsControl(c) == c \in {"\n", "\t", "\r", "\f"}

\* the character at a position, "" past the end
CharAt(text, p) == IF p <= Len(text) THEN text[p] ELSE ""

\* [aA][nN][dD] and the like: the word w at p, whatever the case
Word(text, p, w) ==
  \A i \in 1 .. Len(w) :
    LET c == CharAt(text, p + i - 1)
    IN IF IsUpper(c) THEN Lowers[CHOOSE j \in 1 .. 26 : c = Uppers[j]] = w[i]
       ELSE c = w[i]

RECURSIVE DigitsEnd(_, _), NameEnd(_, _), NewlinesEnd(_, _), StringEnd(_, _),
          Concat(_, _, _), IntOf(_, _, _, _), LexFrom(_, _, _, _)

\* \d+ from p: the position after the digits
DigitsEnd(text, p) ==
  IF IsDigit(CharAt(text, p)) THEN DigitsEnd(text, p + 1) ELSE p

\* [a-zA-Z0-9_]* from p
NameEnd(text, p) ==
  IF IsLetter(CharAt(text, p)) \/ IsDigit(CharAt(text, p)) \/ CharAt(text, p) = "_"
  THEN NameEnd(text, p + 1)
  ELSE p

\* \n+ from p
NewlinesEnd(text, p) ==
  IF CharAt(text, p) = "\n" THEN NewlinesEnd(text, p + 1) ELSE p

\* (?:\d+)?\.\d+ at p: the position after the match, 0 when there is none
FloatEnd(text, p) ==
  IF CharAt(text, DigitsEnd(text, p)) = "."
     /\ IsDigit(CharAt(text, DigitsEnd(text, p) + 1))
  THEN DigitsEnd(text, DigitsEnd(text, p) + 1)
  ELSE 0

\* \\(['"\\/bfnrt]|u[0-9ABCDEF]{4}) at p: the length of the escape, 0 when
\* there is none
EscapeLen(text, p) ==
  IF CharAt(text, p) # "\\" THEN 0
  ELSE IF CharAt(text, p + 1) \in {"'", "\"", "\\", "/", "b", "f", "n", "r", "t"} THEN 2
  ELSE IF /\ CharAt(text, p + 1) = "u"
          /\ \A i \in 2 .. 5 :
               \/ IsDigit(CharAt(text, p + i))
               \/ CharAt(text, p + i) \in {"A", "B", "C", "D", "E", "F"}
  THEN 6
  ELSE 0

\* the rest of t_STRING after the opening quote: the position after the
\* closing quote, 0 when the pattern does not match
StringEnd(text, p) ==
  IF p > Len(text) THEN 0
  ELSE IF text[p] = "\"" THEN p + 1
  ELSE IF text[p] = "\\"
  THEN IF EscapeLen(text, p) = 0 THEN 0 ELSE StringEnd(text, p + EscapeLen(text, p))
  ELSE IF IsControl(text[p]) THEN 0
  ELSE StringEnd(text, p + 1)

\* the characters a .. b of the text as one string
Concat(text, a, b) == IF a > b THEN "" ELSE text[a] \o Concat(text, a + 1, b)

\* int() of the digits a .. b
IntOf(text, a, b, acc) ==
  IF a > b THEN acc ELSE IntOf(text, a + 1, b, 10 * acc + DigitOf(text[a]))

\* the last digit of a .. b that is not a trailing zero (a - 1: none)
FractionEnd(text, a, b) ==
  IF \E i \in a .. b : text[i] # "0"
  THEN CHOOSE i \in a .. b : text[i] # "0" /\ \A j \in i + 1 .. b : text[j] = "0"
  ELSE a - 1

\* t_FLOAT: float(t.value) is the integer part and the digits of the fraction
FloatTok(text, p, dot, e) ==
  [type |-> "FLOAT", s |-> Concat(text, dot + 1, FractionEnd(text, dot + 1, e - 1)),
   n |-> IntOf(text, p, dot - 1, 0)]

\* the rules that are strings and match two characters, one character
Doubles ==
  {[type |-> "DEEPSELECTOR", s |-> "..", n |-> 0], [type |-> "LE", s |-> "<=", n |-> 0], [type |-> "GE", s |-> ">=", n |-> 0],
   [type |-> "NE", s |-> "!=", n |-> 0]}

Singles ==
  {[type |-> "ROOT", s |-> "$", n |-> 0], [type |-> "AT", s |-> "@", n |-> 0],
   [type |-> "SIMPLESELECTOR", s |-> ".", n |-> 0],
   [type |-> "LSQUAREPAREN", s |-> "[", n |-> 0],
   [type |-> "RSQUAREPAREN", s |-> "]", n |-> 0],
   [type |-> "LPAREN", s |-> "(", n |-> 0], [type |-> "RPAREN", s |-> ")", n |-> 0],
   [type |-> "DELIMPARAMS", s |-> ",", n |-> 0], [type |-> "SLICE", s |-> ":", n |-> 0],
   [type |-> "MINUS", s |-> "-", n |-> 0], [type |-> "PLUS", s |-> "+", n |-> 0],
   [type |-> "MULT", s |-> "*", n |-> 0], [type |-> "DIV", s |-> "/", n |-> 0],
   [type |-> "MOD", s |-> "%", n |-> 0], [type |-> "EQ", s |-> "=", n |-> 0],
   [type |-> "LT", s |-> "<", n |-> 0], [type |-> "GT", s |-> ">", n |-> 0],
   [type |-> "UNION", s |-> "|", n |-> 0]}

\* what the lexer has given so far: the tokens, the lineno and the lexpos
\* of each, and the exception of t_error with its lineno and pos
NoTokens ==
  [toks |-> <<>>, lineno |-> <<>>, lexpos |-> <<>>, err |-> "", msg |-> "",
   errline |-> 0, errpos |-> 0]

\* a token read at p on line lineno; the lexer goes on from e
Emit(text, p, lineno, acc, tok, e) ==
  LexFrom(text, e, lineno,
          [acc EXCEPT !.toks = Append(@, tok), !.lineno = Append(@, lineno),
                      !.lexpos = Append(@, p - 1)])

\* t_error with t.value the text from p: t.value[1] does not exist when the
\* backslash is the last character
LexError(text, p, lineno, acc) ==
  IF text[p] = "\\" /\ p = Len(text) THEN [acc EXCEPT !.err = "IndexError"]
  ELSE [acc EXCEPT !.err = "JPathLexicalError",
                   !.msg = IF text[p] = "\\" /\ text[p + 1] # "\\"
                           THEN "Unescaped char" ELSE "Invalid syntax",
                   !.errline = lineno, !.errpos = p - 1]

\* t_newline: t.lexer.lineno += t.value.count("\n")
Newlines(text, p, lineno, acc, e) == LexFrom(text, e, lineno + (e - p), acc)

\* lexer.token() until the end of the text or an error
LexFrom(text, p, lineno, acc) ==
  IF p > Len(text) THEN acc
  ELSE IF text[p] \in {" ", "\t"} THEN LexFrom(text, p + 1, lineno, acc)
  ELSE IF Word(text, p, <<"a", "n", "d">>)
  THEN Emit(text, p, lineno, acc, tOP("AND", "and"), p + 3)
  ELSE IF Word(text, p, <<"o", "r">>)
  THEN Emit(text, p, lineno, acc, tOP("OR", "or"), p + 2)
  ELSE IF FloatEnd(text, p) > 0
  THEN Emit(text, p, lineno, acc,
            FloatTok(text, p, DigitsEnd(text, p), FloatEnd(text, p)), FloatEnd(text, p))
  ELSE IF IsDigit(text[p])
  THEN Emit(text, p, lineno, acc, tINT(IntOf(text, p, DigitsEnd(text, p) - 1, 0)),
            DigitsEnd(text, p))
  ELSE IF Word(text, p, <<"t", "r", "u", "e">>)
  THEN Emit(text, p, lineno, acc, tTRUE, p + 4)
  ELSE IF Word(text, p, <<"f", "a", "l", "s", "e">>)
  THEN Emit(text, p, lineno, acc, tFALSE, p + 5)
  ELSE IF Word(text, p, <<"n", "u", "l", "l">>)
  THEN Emit(text, p, lineno, acc, tNULL, p + 4)
  ELSE IF text[p] = "\"" /\ StringEnd(text, p + 1) > 0
  THEN Emit(text, p, lineno, acc,
            tSTRING(Concat(text, p + 1, StringEnd(text, p + 1) - 2)),
            StringEnd(text, p + 1))
  ELSE IF text[p] = "\n" THEN Newlines(text, p, lineno, acc, NewlinesEnd(text, p))
  ELSE IF IsLetter(text[p])
  THEN Emit(text, p, lineno, acc, tFUNCNAME(Concat(text, p, NameEnd(text, p) - 1)),
            NameEnd(text, p))
  ELSE IF \E d \in Doubles : d.s = text[p] \o CharAt(text, p + 1)
  THEN Emit(text, p, lineno, acc,
            CHOOSE d \in Doubles : d.s = text[p] \o CharAt(text, p + 1), p + 2)
  ELSE IF \E d \in Singles : d.s = text[p]
  THEN Emit(text, p, lineno, acc, CHOOSE d \in Singles : d.s = text[p], p + 1)
  ELSE LexError(text, p, lineno, acc)

\* the tokens of a text: the lexer starts on line 1
Lex(text) == LexFrom(text, 1, 1, NoTokens)

(***************************************************************************)
(* The values the grammar rules hold in p[i] and the Python source they    *)
(* build.  Source text is a sequence of pieces; a str is its text.         *)
(***************************************************************************)
PInt(x)   == [t |-> "int", n |-> x, text |-> <<>>]
PBool(x)  == [t |-> "bool", n |-> x, text |-> <<>>]
PNone     == [t |-> "none", n |-> 0, text |-> <<>>]
PStr(txt) == [t |-> "str", n |-> 0, text |-> txt]

\* a piece of source text
TT(k, s, n, ix, vals) == [k |-> k, s |-> s, n |-> n, ix |-> ix, vals |-> vals]

TRoot        == TT("root", "", 0, IntIdx(0), <<>>)
TCur         == TT("cur", "", 0, IntIdx(0), <<>>)
\* .one("key", deep=D)
TOne(key, d) == TT("one", key, IF d THEN 1 ELSE 0, IntIdx(0), <<>>)
\* .all(deep=D)
TAll(d)      == TT("all", "", IF d THEN 1 ELSE 0, IntIdx(0), <<>>)
\* .el(%r) and .i(%r)
TEl(ix)      == TT("el", "", 0, ix, <<>>)
TI(ix)       == TT("i", "", 0, ix, <<>>)
\* .exp()
TExp         == TT("exp", "", 0, IntIdx(0), <<>>)
\* .filter(lambda idx, cur, root :    and the closing parenthesis
TFilterOpen  == TT("filter(", "", 0, IntIdx(0), <<>>)
TClose       == TT(")", "", 0, IntIdx(0), <<>>)
\* .call4self(jpath_functions.NAME, *(args...))
TCall(name, args) == TT("call4self", name, 0, IntIdx(0), args)
\* .val()
TVal         == TT("val", "", 0, IntIdx(0), <<>>)
\* an operator between (or before) operands
TOp(x)       == TT("op", x, 0, IntIdx(0), <<>>)
\* str() of an int, a bool or None
TLit(pv)     == TT("lit", "", 0, IntIdx(0), <<pv>>)
\* the double quote, and the characters of a STRING token
TQuote       == TT("quote", "", 0, IntIdx(0), <<>>)
TChars(x)    == TT("chars", x, 0, IntIdx(0), <<>>)
TLParen      == TT("(", "", 0, IntIdx(0), <<>>)

\* str(p[i]), "%s" % p[i]
StrOf(pv) == IF pv.t = "str" THEN pv.text ELSE <<TLit(pv)>>

\* a rule that takes no expression for digits: every [expressionstr] a filter
IsDigitStrNever(pv) == FALSE

\* str(p[3]).isdigit()
IsDigitStr(pv) ==
  \/ pv.t = "int" /\ pv.n >= 0
  \/ /\ pv.t = "str" /\ pv.text # <<>>
     /\ \A j \in 1 .. Len(pv.text) :
          /\ pv.text[j].k = "lit"
          /\ pv.text[j].vals[1].t = "int" /\ pv.text[j].vals[1].n >= 0

\* p1.startswith('"') and p1.endswith('"')
IsQuoted(txt) == Len(txt) >= 1 /\ txt[1].k = "quote" /\ txt[Len(txt)].k = "quote"

\* p1[1:len(p1)-1]
StripEnds(txt) == IF Len(txt) <= 1 THEN <<>> ELSE SubSeq(txt, 2, Len(txt) - 1)

(***************************************************************************)
(* The function table (jpath_funcs): the attributes a query can name.      *)
(***************************************************************************)
\* JPathFunctions: the library functions the model evaluates
LibraryFuncs == {"get", "count", "has"}
DefaultTable == [callable |-> LibraryFuncs, other |-> {}]
\* a table of the caller with an attribute that is no function
CustomTable == [callable |-> LibraryFuncs, other |-> {"ver"}]
Tables == {DefaultTable, CustomTable}

\* a rule that emits the call without looking the name up
IsFunctionUnchecked(tab, name) == TRUE

\* hasattr(jpath_funcs, name) and callable(jpath_funcs.name)
IsFunction(tab, name) == name \in (tab.callable \cup tab.other) /\ name \in tab.callable

(***************************************************************************)
(* parse(): the grammar rules of parse.py.  A rule's result is the value   *)
(* of p[0], the symbol it reduces to and the position after it, or the     *)
(* exception the parser raised and the token it raised it at (0: the end   *)
(* of the input).                                                          *)
(***************************************************************************)
Good(pos, kind, pv) ==
  [ok |-> TRUE, pos |-> pos, kind |-> kind, pv |-> pv, ix |-> IntIdx(0),
   tup |-> <<>>, err |-> "", at |-> 0]
GoodIx(pos, ix) ==
  [ok |-> TRUE, pos |-> pos, kind |-> "index", pv |-> PNone, ix |-> ix,
   tup |-> <<>>, err |-> "", at |-> 0]
GoodTup(pos, tup) ==
  [ok |-> TRUE, pos |-> pos, kind |-> "parameters", pv |-> PNone, ix |-> IntIdx(0),
   tup |-> tup, err |-> "", at |-> 0]
Fail(cls, at) ==
  [ok |-> FALSE, pos |-> 0, kind |-> "", pv |-> PNone, ix |-> IntIdx(0),
   tup |-> <<>>, err |-> cls, at |-> at]

\* p_error: the token ply could not place
SyntaxErrorAt(toks, pos) == Fail("JPathSyntaxError", IF pos <= Len(toks) THEN pos ELSE 0)

\* the precedence table: the level of a binary operator token, 0 for the rest
Prec(type) ==
  IF type \in {"AND", "OR"} THEN 4
  ELSE IF type \in {"EQ", "NE", "LT", "LE", "GT", "GE"} THEN 5
  ELSE IF type \in {"PLUS", "MINUS"} THEN 6
  ELSE IF type \in {"MULT", "DIV", "MOD"} THEN 7
  ELSE 0

\* p_int: INT | MINUS INT
ParseInt(toks, pos) ==
  IF TypeAt(toks, pos) = "INT" THEN GoodIx(pos + 1, IntIdx(toks[pos].n))
  ELSE IF TypeAt(toks, pos) = "MINUS"
  THEN IF TypeAt(toks, pos + 1) = "INT"
       THEN GoodIx(pos + 2, IntIdx(0 - toks[pos + 1].n))
       ELSE SyntaxErrorAt(toks, pos + 1)
  ELSE SyntaxErrorAt(toks, pos)

\* a rule indices built on int instead of INT: int DELIMPARAMS int |
\* indices DELIMPARAMS int
RECURSIVE ParseIndicesSigned(_, _, _)
ParseIndicesSigned(toks, pos, acc) ==
  LET r == ParseInt(toks, pos)
  IN IF ~r.ok THEN r
     ELSE IF TypeAt(toks, r.pos) = "DELIMPARAMS"
     THEN ParseIndicesSigned(toks, r.pos + 1, Append(acc, r.ix.i))
     ELSE GoodIx(r.pos, ListIdx(Append(acc, r.ix.i)))

\* p_indices: INT DELIMPARAMS INT | indices DELIMPARAMS INT
RECURSIVE ParseIndices(_, _, _)
ParseIndices(toks, pos, acc) ==
  IF TypeAt(toks, pos) # "INT" THEN SyntaxErrorAt(toks, pos)
  ELSE LET list == Append(acc, toks[pos].n)
       IN IF TypeAt(toks, pos + 1) = "DELIMPARAMS"
          THEN ParseIndices(toks, pos + 2, list)
          ELSE GoodIx(pos + 1, ListIdx(list))

IntRead(pos, r) ==
  IF r.ok THEN [ok |-> TRUE, pos |-> r.pos, v |-> <<r.ix.i>>, r |-> r]
  ELSE [ok |-> FALSE, pos |-> pos, v |-> <<>>, r |-> r]

\* an optional int before or after a SLICE token
OptInt(toks, pos) ==
  IF TypeAt(toks, pos) \in {"INT", "MINUS"} THEN IntRead(pos, ParseInt(toks, pos))
  ELSE [ok |-> TRUE, pos |-> pos, v |-> <<>>, r |-> GoodIx(pos, IntIdx(0))]

\* p_slicestep: start SLICE stop SLICE step
SliceAfterStep(a, b, c) ==
  IF ~c.ok THEN c.r ELSE GoodIx(c.pos, SliceIdx(a.v, b.v, c.v))

\* p_slicestartstop: start SLICE stop
SliceAfterStop(toks, a, b) ==
  IF ~b.ok THEN b.r
  ELSE IF TypeAt(toks, b.pos) # "SLICE" THEN GoodIx(b.pos, SliceIdx(a.v, b.v, <<>>))
  ELSE SliceAfterStep(a, b, OptInt(toks, b.pos + 1))

SliceAfterStart(toks, a) ==
  IF ~a.ok THEN a.r
  ELSE IF TypeAt(toks, a.pos) # "SLICE" THEN SyntaxErrorAt(toks, a.pos)
  ELSE SliceAfterStop(toks, a, OptInt(toks, a.pos + 1))

\* p_slice, p_slicestartstop, p_slicestep
ParseSlice(toks, pos) == SliceAfterStart(toks, OptInt(toks, pos))

\* the tokens that begin slice, where int, indices and slice are the choices
StartsSlice(toks, pos) ==
  \/ TypeAt(toks, pos) = "SLICE"
  \/ TypeAt(toks, pos) = "INT" /\ TypeAt(toks, pos + 1) = "SLICE"
  \/ /\ TypeAt(toks, pos) = "MINUS" /\ TypeAt(toks, pos + 1) = "INT"
     /\ TypeAt(toks, pos + 2) = "SLICE"

\* int | indices | slice
ParseIndexArg(toks, pos) ==
  IF StartsSlice(toks, pos) THEN ParseSlice(toks, pos)
  ELSE IF TypeAt(toks, pos) = "INT" /\ TypeAt(toks, pos + 1) = "DELIMPARAMS"
  THEN ParseIndices(toks, pos, <<>>)
  ELSE ParseInt(toks, pos)

\* p_expression_math, p_expression_comp, p_expression_logic
Combine(l, op, r) ==
  LET sym == IF op.type = "EQ" THEN "==" ELSE op.s
      lt  == StrOf(l.pv)
      rt  == StrOf(r.pv)
  IN IF op.type \in {"AND", "OR"} THEN PStr(lt \o <<TOp(sym)>> \o rt)
     ELSE IF l.kind = "jpath" THEN PStr(lt \o <<TVal, TOp(sym)>> \o rt)
     ELSE IF r.kind = "jpath" THEN PStr(lt \o <<TOp(sym)>> \o rt \o <<TVal>>)
     ELSE PStr(lt \o <<TOp(sym)>> \o rt)

\* p_parameters_one
ParameterOne(pv) ==
  IF IsQuoted(StrOf(pv)) THEN <<PStr(StripEnds(StrOf(pv)))>> ELSE <<pv>>

RECURSIVE ParseChain(_, _, _), ParseSteps(_, _, _, _), ParseUnion(_, _, _, _),
          ParseBin(_, _, _, _), BinLoop(_, _, _, _), ParseUnary(_, _, _),
          ParseParams(_, _, _, _), ParseFunction(_, _, _)

\* p_jpath_filterarray, and p_jpath_filteritems with indices or a slice:
\* .el(%r) or .i(%r) of the parsed index r
IndexStep(toks, r, method) ==
  IF ~r.ok THEN r
  ELSE IF TypeAt(toks, r.pos) # "RSQUAREPAREN" THEN SyntaxErrorAt(toks, r.pos)
  ELSE Good(r.pos + 1, "step", PStr(<<IF method = "el" THEN TEl(r.ix) ELSE TI(r.ix)>>))

\* p_jpath_filteritems with the expressionstr e: digits are an index,
\* anything else is the body of a lambda
FilterStep(toks, e) ==
  IF ~e.ok THEN e
  ELSE IF TypeAt(toks, e.pos) # "RSQUAREPAREN" THEN SyntaxErrorAt(toks, e.pos)
  ELSE IF IsDigitStr(e.pv) THEN Good(e.pos + 1, "step", PStr(<<TI(IntIdx(e.pv.n))>>))
  ELSE Good(e.pos + 1, "step", PStr(<<TFilterOpen>> \o StrOf(e.pv) \o <<TClose>>))

\* one selector after a jpath: the source it adds
ParseStep(toks, pos, tab) ==
  LET ty == TypeAt(toks, pos)
      nx == TypeAt(toks, pos + 1)
  IN IF ty \in {"SIMPLESELECTOR", "DEEPSELECTOR"}
     THEN \* p_jpath_selection
          IF nx \in {"STRING", "MULT"}
          THEN Good(pos + 2, "step",
                    PStr(<<IF toks[pos + 1].s = "*" THEN TAll(ty = "DEEPSELECTOR")
                           ELSE TOne(toks[pos + 1].s, ty = "DEEPSELECTOR")>>))
          \* p_jpath_filterarray
          ELSE IF ty = "SIMPLESELECTOR" /\ nx = "LSQUAREPAREN"
          THEN IndexStep(toks, ParseIndexArg(toks, pos + 2), "el")
          ELSE SyntaxErrorAt(toks, pos + 1)
     \* p_jpath_filteritems
     ELSE IF nx = "MULT"
     THEN IF TypeAt(toks, pos + 2) = "RSQUAREPAREN"
          THEN Good(pos + 3, "step", PStr(<<TExp>>))
          ELSE SyntaxErrorAt(toks, pos + 2)
     ELSE IF StartsSlice(toks, pos + 1)
             \/ (nx = "INT" /\ TypeAt(toks, pos + 2) = "DELIMPARAMS")
     THEN IndexStep(toks, ParseIndexArg(toks, pos + 1), "i")
     ELSE FilterStep(toks, ParseBin(toks, pos + 1, tab, 0))

\* p_jpath_root.  The selectors and unions after a jpath are shifted
\* wherever the jpath stands: no rule that ends with a jpath can be followed
\* by ".", "..", "[" or "|" but the union, and extending either side of a
\* union builds the same source
ParseChain(toks, pos, tab) ==
  IF TypeAt(toks, pos) \in {"ROOT", "AT"}
  THEN ParseSteps(toks, pos + 1, tab,
                  <<IF TypeAt(toks, pos) = "ROOT" THEN TRoot ELSE TCur>>)
  ELSE SyntaxErrorAt(toks, pos)

StepsAfter(toks, tab, text, st) ==
  IF ~st.ok THEN st ELSE ParseSteps(toks, st.pos, tab, text \o st.pv.text)

\* the selectors that follow a jpath
ParseSteps(toks, pos, tab, text) ==
  IF \/ TypeAt(toks, pos) \in {"SIMPLESELECTOR", "DEEPSELECTOR"}
     \/ TypeAt(toks, pos) = "LSQUAREPAREN"
  THEN StepsAfter(toks, tab, text, ParseStep(toks, pos, tab))
  ELSE Good(pos, "jpath", PStr(text))

UnionAfter(toks, tab, left, r) ==
  IF ~r.ok THEN r
  ELSE ParseUnion(toks, r.pos, tab,
                  Good(r.pos, "jpath", PStr(left.pv.text \o <<TOp("+")>> \o r.pv.text)))

\* p_jpath_union: jpath UNION jpath, the lowest precedence, to the left
ParseUnion(toks, pos, tab, left) ==
  IF TypeAt(toks, pos) = "UNION"
  THEN UnionAfter(toks, tab, left, ParseChain(toks, pos + 1, tab))
  ELSE left

JPathAfter(toks, tab, c) ==
  IF ~c.ok THEN c ELSE ParseUnion(toks, c.pos, tab, c)

\* a jpath with its unions
ParseJPath(toks, pos, tab) ==
  JPathAfter(toks, tab, ParseChain(toks, pos, tab))

BinAfter(toks, tab, minp, l) == IF ~l.ok THEN l ELSE BinLoop(toks, l, tab, minp)

\* an operand and the binary operators after it whose level is minp or more
ParseBin(toks, pos, tab, minp) ==
  BinAfter(toks, tab, minp, ParseUnary(toks, pos, tab))

BinNext(toks, l, tab, minp, r) ==
  IF ~r.ok THEN r
  ELSE BinLoop(toks, Good(r.pos, "expression", Combine(l, toks[l.pos], r)), tab, minp)

\* operators of one level reduce to the left, a higher level first
BinLoop(toks, l, tab, minp) ==
  IF Prec(TypeAt(toks, l.pos)) > 0 /\ Prec(TypeAt(toks, l.pos)) >= minp
  THEN BinNext(toks, l, tab, minp,
               ParseBin(toks, l.pos + 1, tab, Prec(TypeAt(toks, l.pos)) + 1))
  ELSE l

\* p_expression_uminus
Negated(o) ==
  IF ~o.ok THEN o
  ELSE IF o.kind = "expression"
  THEN Good(o.pos, "expression", PStr(<<TOp("-")>> \o StrOf(o.pv)))
  ELSE Good(o.pos, "expression", PStr(<<TOp("-")>> \o StrOf(o.pv) \o <<TVal>>))

\* p_expression_group
Grouped(toks, e) ==
  IF ~e.ok THEN e
  ELSE IF TypeAt(toks, e.pos) # "RPAREN" THEN SyntaxErrorAt(toks, e.pos)
  ELSE Good(e.pos + 1, "expression", PStr(<<TLParen>> \o StrOf(e.pv) \o <<TClose>>))

\* p_expression, p_expression_uminus, p_expression_group, or a jpath
ParseUnary(toks, pos, tab) ==
  LET ty == TypeAt(toks, pos)
  IN IF ty = "INT" THEN Good(pos + 1, "expression", PInt(toks[pos].n))
     ELSE IF ty = "TRUE" THEN Good(pos + 1, "expression", PBool(1))
     ELSE IF ty = "FALSE" THEN Good(pos + 1, "expression", PBool(0))
     ELSE IF ty = "NULL" THEN Good(pos + 1, "expression", PNone)
     ELSE IF ty = "STRING"
     THEN Good(pos + 1, "expression", PStr(<<TQuote, TChars(toks[pos].s), TQuote>>))
     ELSE IF ty = "FUNCNAME" THEN ParseFunction(toks, pos, tab)
     ELSE IF ty = "MINUS" THEN Negated(ParseUnary(toks, pos + 1, tab))
     ELSE IF ty = "LPAREN" THEN Grouped(toks, ParseBin(toks, pos + 1, tab, 0))
     ELSE IF ty \in {"ROOT", "AT"} THEN ParseJPath(toks, pos, tab)
     ELSE SyntaxErrorAt(toks, pos)

ParamsAfter(toks, tab, acc, e) ==
  IF ~e.ok THEN e
  ELSE IF TypeAt(toks, e.pos) = "DELIMPARAMS"
  THEN ParseParams(toks, e.pos + 1, tab, acc \o ParameterOne(e.pv))
  ELSE GoodTup(e.pos, acc \o ParameterOne(e.pv))

\* p_parameters_one, p_parameters_group
ParseParams(toks, pos, tab, acc) ==
  ParamsAfter(toks, tab, acc, ParseBin(toks, pos, tab, 0))

\* the tokens that may follow a function (the lookahead set of the state that
\* reduces p_function); the end of the input joins them unless the start rule
\* is jpath
FunctionFollow ==
  {"AND", "OR", "EQ", "NE", "LT", "LE", "GT", "GE", "PLUS", "MINUS", "MULT",
   "DIV", "MOD", "DELIMPARAMS", "RPAREN", "RSQUAREPAREN", "$end"}

\* p_function with the parameters ps, reduced once the next token can follow
\* it: the name must be a function of the table; the first parameter is the
\* receiver, the rest is formatted as a tuple, each parameter by its repr
FunctionAfter(toks, pos, tab, ps) ==
  IF ~ps.ok THEN ps
  ELSE IF TypeAt(toks, ps.pos) # "RPAREN" THEN SyntaxErrorAt(toks, ps.pos)
  ELSE IF TypeAt(toks, ps.pos + 1) \notin FunctionFollow
  THEN SyntaxErrorAt(toks, ps.pos + 1)
  ELSE IF IsFunction(tab, toks[pos].s)
  THEN Good(ps.pos + 1, "expression",
            PStr(StrOf(ps.tup[1]) \o
                 <<TCall(toks[pos].s, SubSeq(ps.tup, 2, Len(ps.tup)))>>))
  ELSE Fail("JPathFunctionError", ps.pos + 1)

ParseFunction(toks, pos, tab) ==
  IF TypeAt(toks, pos) # "FUNCNAME" THEN SyntaxErrorAt(toks, pos)
  ELSE IF TypeAt(toks, pos + 1) # "LPAREN" THEN SyntaxErrorAt(toks, pos + 1)
  ELSE FunctionAfter(toks, pos, tab, ParseParams(toks, pos + 2, tab, <<>>))

\* the input must end where the start rule ends; from the rule jpath a
\* function at the very end is not reduced, the end of the input is the error
ParseEnd(toks, start, r) ==
  IF r.ok
  THEN IF r.pos <= Len(toks) THEN SyntaxErrorAt(toks, r.pos) ELSE r
  ELSE IF start = "jpath" /\ r.err = "JPathFunctionError" /\ r.at > Len(toks)
  THEN SyntaxErrorAt(toks, r.at)
  ELSE r

\* parse(expr, start): parser.parse(expr) from the rule start
Parse(toks, start, tab) ==
  ParseEnd(toks, start,
           IF start = "jpath" THEN ParseJPath(toks, 1, tab)
           ELSE IF start = "function" THEN ParseFunction(toks, 1, tab)
           ELSE ParseBin(toks, 1, tab, 0))

(***************************************************************************)
(* eval(res, {"root": root, "cur": cur, "jpath_functions": jpath_funcs}):  *)
(* Python reads the generated source with its own grammar.  The syntax     *)
(* tree of an expression: op is the node, tok the piece it was read from,  *)
(* ops the operators of a comparison chain, kids the operands.             *)
(***************************************************************************)
Ast(op, tok, ops, kids) == [op |-> op, tok |-> tok, ops |-> ops, kids |-> kids]

PyGood(pos, ast) == [ok |-> TRUE, pos |-> pos, ast |-> ast]
PyBad == [ok |-> FALSE, pos |-> 0, ast |-> Ast("error", TClose, <<>>, <<>>)]

KindAt(text, pos) == IF pos <= Len(text) THEN text[pos].k ELSE "$end"

\* Python's binary operators by level, the loosest first
PyOps(lvl) ==
  IF lvl = 1 THEN {"or"}
  ELSE IF lvl = 2 THEN {"and"}
  ELSE IF lvl = 3 THEN {"==", "!=", "<", "<=", ">", ">="}
  ELSE IF lvl = 4 THEN {"+", "-"}
  ELSE {"*", "/", "%"}

Trailers == {"one", "all", "el", "i", "exp", "val", "call4self", "filter("}

RECURSIVE PyLevel(_, _, _), PyLoop(_, _, _), PyFactor(_, _), PyTrail(_, _)

LevelAfter(text, lvl, l) == IF ~l.ok THEN l ELSE PyLoop(text, l, lvl)

PyLevel(text, pos, lvl) ==
  IF lvl = 6 THEN PyFactor(text, pos)
  ELSE LevelAfter(text, lvl, PyLevel(text, pos, lvl + 1))

\* l <op> r: comparisons chain, the other operators nest to the left
Joined(text, l, lvl, r) ==
  IF lvl = 3 /\ l.ast.op = "compare"
  THEN Ast("compare", TClose, Append(l.ast.ops, text[l.pos].s), Append(l.ast.kids, r.ast))
  ELSE IF lvl = 3 THEN Ast("compare", TClose, <<text[l.pos].s>>, <<l.ast, r.ast>>)
  ELSE Ast("binop", text[l.pos], <<>>, <<l.ast, r.ast>>)

LoopNext(text, l, lvl, r) ==
  IF ~r.ok THEN r ELSE PyLoop(text, PyGood(r.pos, Joined(text, l, lvl, r)), lvl)

PyLoop(text, l, lvl) ==
  IF KindAt(text, l.pos) = "op" /\ text[l.pos].s \in PyOps(lvl)
  THEN LoopNext(text, l, lvl, PyLevel(text, l.pos + 1, lvl + 1))
  ELSE l

PyNegated(o) == IF ~o.ok THEN o ELSE PyGood(o.pos, Ast("neg", TClose, <<>>, <<o.ast>>))

PyGrouped(text, e) ==
  IF ~e.ok THEN e
  ELSE IF KindAt(text, e.pos) # ")" THEN PyBad
  ELSE PyGood(e.pos + 1, Ast("group", TClose, <<>>, <<e.ast>>))

PyAtom(text, pos) ==
  LET k == KindAt(text, pos)
  IN IF k \in {"root", "cur", "chars"} THEN PyGood(pos + 1, Ast("name", text[pos], <<>>, <<>>))
     ELSE IF k = "lit"
     THEN \* "1." begins a float: an attribute after an int literal is no syntax
          IF text[pos].vals[1].t = "int" /\ KindAt(text, pos + 1) \in Trailers
          THEN PyBad
          ELSE PyGood(pos + 1, Ast("lit", text[pos], <<>>, <<>>))
     ELSE IF k = "quote"
     THEN IF KindAt(text, pos + 1) = "chars" /\ KindAt(text, pos + 2) = "quote"
          THEN PyGood(pos + 3, Ast("str", text[pos + 1], <<>>, <<>>))
          ELSE PyBad
     ELSE IF k = "(" THEN PyGrouped(text, PyLevel(text, pos + 1, 1))
     ELSE PyBad

TrailAfter(text, a) == IF ~a.ok THEN a ELSE PyTrail(text, a)

PyFactor(text, pos) ==
  IF KindAt(text, pos) = "op" /\ text[pos].s = "-"
  THEN PyNegated(PyFactor(text, pos + 1))
  ELSE TrailAfter(text, PyAtom(text, pos))

\* .filter(lambda idx, cur, root : body): the body runs to the closing
\* parenthesis
LambdaAfter(text, a, e) ==
  IF ~e.ok THEN e
  ELSE IF KindAt(text, e.pos) # ")" THEN PyBad
  ELSE PyTrail(text, PyGood(e.pos + 1, Ast("call", text[a.pos], <<>>, <<a.ast, e.ast>>)))

\* the method calls after an atom
PyTrail(text, a) ==
  IF KindAt(text, a.pos) = "filter(" THEN LambdaAfter(text, a, PyLevel(text, a.pos + 1, 1))
  ELSE IF KindAt(text, a.pos) \in Trailers
  THEN PyTrail(text, PyGood(a.pos + 1, Ast("call", text[a.pos], <<>>, <<a.ast>>)))
  ELSE a

PyEnd(text, r) == IF r.ok /\ r.pos = Len(text) + 1 THEN r ELSE PyBad

PyParse(text) == PyEnd(text, PyLevel(text, 1, 1))

(***************************************************************************)
(* Python values at run time.  A number is n/d (d = 1 but for the result   *)
(* of a true division); a node is a value of the input documents; a        *)
(* selection is its items and the items of its meta["root"], of that       *)
(* one's meta["root"], ..., up to the selection that is its own root.      *)
(***************************************************************************)
\* calls is no part of the value: it records, for the selection a filter
\* returned, the indices of the items its lambda was called on
RV(t, n, d, s, items, roots, text) ==
  [t |-> t, n |-> n, d |-> d, s |-> s, items |-> items, roots |-> roots, text |-> text,
   calls |-> <<>>]

RSel(items, roots) == RV("sel", 0, 1, "", items, roots, <<>>)
RInt(x)      == RV("int", x, 1, "", <<>>, <<>>, <<>>)
RBool(b)     == RV("bool", IF b THEN 1 ELSE 0, 1, "", <<>>, <<>>, <<>>)
RFloat(x, y) == RV("float", x, y, "", <<>>, <<>>, <<>>)
RNone        == RV("none", 0, 1, "", <<>>, <<>>, <<>>)
RStr(text)   == RV("str", 0, 1, "", <<>>, <<>>, text)
RNode(id)    == RV("node", id, 1, "", <<>>, <<>>, <<>>)
RExc(cls)    == RV("exc", 0, 1, cls, <<>>, <<>>, <<>>)

\* self.meta["root"]
RootOf(v) == IF v.roots = <<>> THEN v ELSE RSel(Head(v.roots), Tail(v.roots))

\* self.__class__(*items, **self.meta): root = self.meta["root"] or self
Derive(v, items) ==
  LET r == RootOf(v)
  IN IF r.items = <<>> THEN RSel(items, <<>>) ELSE RSel(items, <<r.items>> \o r.roots)

\* the Python type of a value, numbers (int, bool, float) taken together
Kind(v) ==
  IF v.t \in {"int", "bool", "float"} THEN "num"
  ELSE IF v.t = "node"
  THEN LET h == Heap[v.n].t
       IN IF h \in {"int", "bool"} THEN "num" ELSE IF h = "null" THEN "none" ELSE h
  ELSE v.t

NumN(v) == IF v.t = "node" THEN Heap[v.n].n ELSE v.n
NumD(v) == IF v.t = "node" THEN 1 ELSE v.d
IsIntegral(v) == Kind(v) = "num" /\ v.t # "float"
StrText(v) == IF v.t = "node" THEN <<TChars(Heap[v.n].s)>> ELSE v.text
KidsOf(v) == Heap[v.n].kids

\* the strings of the model in Python's order
StrPool == <<"", "a", "ab", "abc", "b", "k">>
StrRank(text) ==
  IF Len(text) = 1 /\ text[1].k = "chars" /\ text[1].s \in Range(StrPool)
  THEN CHOOSE j \in 1 .. Len(StrPool) : StrPool[j] = text[1].s
  ELSE 0

StrEmpty(text) == \A j \in 1 .. Len(text) : text[j].k = "chars" /\ text[j].s = ""

\* == of two values of the documents
RECURSIVE NodeEq(_, _)
NodeEq(a, b) ==
  LET x == Heap[a]
      y == Heap[b]
  IN IF x.t \in {"int", "bool"} THEN y.t \in {"int", "bool"} /\ x.n = y.n
     ELSE IF x.t # y.t THEN FALSE
     ELSE IF x.t = "str" THEN x.s = y.s
     ELSE IF x.t = "null" THEN TRUE
     ELSE IF x.t = "arr"
     THEN /\ Len(x.kids) = Len(y.kids)
          /\ \A j \in 1 .. Len(x.kids) : NodeEq(x.kids[j], y.kids[j])
     ELSE /\ Range(x.keys) = Range(y.keys)
          /\ \A j \in 1 .. Len(x.keys) : \A m \in 1 .. Len(y.keys) :
               x.keys[j] = y.keys[m] => NodeEq(x.kids[j], y.kids[m])

\* a == b.  JSelection defines no __eq__: two selections are compared by
\* identity, and the selections of a query are distinct objects
PyEq(a, b) ==
  IF Kind(a) # Kind(b) THEN FALSE
  ELSE IF Kind(a) = "num" THEN NumN(a) * NumD(b) = NumN(b) * NumD(a)
  ELSE IF Kind(a) = "str" THEN StrText(a) = StrText(b)
  ELSE IF Kind(a) = "none" THEN TRUE
  ELSE IF Kind(a) \in {"arr", "obj"} THEN NodeEq(a.n, b.n)
  ELSE FALSE

\* the order of two values: "lt", "eq", "gt", or "err" where < raises TypeError
RECURSIVE Compare(_, _), SeqCompare(_, _)
Compare(a, b) ==
  IF Kind(a) = "num" /\ Kind(b) = "num"
  THEN LET x == NumN(a) * NumD(b)
           y == NumN(b) * NumD(a)
       IN IF x < y THEN "lt" ELSE IF x = y THEN "eq" ELSE "gt"
  ELSE IF Kind(a) = "str" /\ Kind(b) = "str"
  THEN LET x == StrRank(StrText(a))
           y == StrRank(StrText(b))
       IN IF x < y THEN "lt" ELSE IF x = y THEN "eq" ELSE "gt"
  ELSE IF Kind(a) = "arr" /\ Kind(b) = "arr" THEN SeqCompare(KidsOf(a), KidsOf(b))
  ELSE "err"

SeqCompare(xs, ys) ==
  IF xs = <<>> THEN (IF ys = <<>> THEN "eq" ELSE "lt")
  ELSE IF ys = <<>> THEN "gt"
  ELSE IF NodeEq(Head(xs), Head(ys)) THEN SeqCompare(Tail(xs), Tail(ys))
  ELSE Compare(RNode(Head(xs)), RNode(Head(ys)))

\* a <op> b for a comparison operator
CompareOp(sym, a, b) ==
  IF sym = "==" THEN RBool(PyEq(a, b))
  ELSE IF sym = "!=" THEN RBool(~PyEq(a, b))
  ELSE LET c == Compare(a, b)
       IN IF c = "err" THEN RExc("TypeError")
          ELSE IF sym = "<" THEN RBool(c = "lt")
          ELSE IF sym = "<=" THEN RBool(c \in {"lt", "eq"})
          ELSE IF sym = ">" THEN RBool(c = "gt")
          ELSE RBool(c \in {"gt", "eq"})

\* bool(v)
Truthy(v) ==
  IF Kind(v) = "num" THEN NumN(v) # 0
  ELSE IF Kind(v) = "str" THEN ~StrEmpty(StrText(v))
  ELSE IF Kind(v) = "none" THEN FALSE
  ELSE IF Kind(v) = "sel" THEN v.items # <<>>
  ELSE KidsOf(v) # <<>>

\* items * n
RECURSIVE Repeat(_, _)
Repeat(q, n) == IF n <= 0 THEN <<>> ELSE q \o Repeat(q, n - 1)

\* the floor of x / y
FloorDiv(x, y) == IF y > 0 THEN x \div y ELSE (0 - x) \div (0 - y)

Number(x, y, integral) == IF integral THEN RInt(x \div y) ELSE RFloat(x, y)

\* a <op> b for an arithmetic operator.  A selection adds and multiplies by
\* __add__, __mul__ and __rmul__; strings are texts: + joins their pieces
Arith(sym, a, b) ==
  LET ka == Kind(a)
      kb == Kind(b)
      an == NumN(a)
      ad == NumD(a)
      bn == NumN(b)
      bd == NumD(b)
      int == IsIntegral(a) /\ IsIntegral(b)
  IN IF ka = "num" /\ kb = "num"
     THEN IF sym = "+" THEN Number(an * bd + bn * ad, ad * bd, int)
          ELSE IF sym = "-" THEN Number(an * bd - bn * ad, ad * bd, int)
          ELSE IF sym = "*" THEN Number(an * bn, ad * bd, int)
          ELSE IF bn = 0 THEN RExc("ZeroDivisionError")
          ELSE IF sym = "/"
          THEN IF bn > 0 THEN RFloat(an * bd, ad * bn)
               ELSE RFloat(0 - an * bd, ad * (0 - bn))
          ELSE LET q == FloorDiv(an * bd, ad * bn)
               IN Number(an * bd - bn * q * ad, ad * bd, int)
     ELSE IF sym = "+" /\ ka = "str" /\ kb = "str" THEN RStr(StrText(a) \o StrText(b))
     ELSE IF sym = "*" /\ ka = "str" /\ IsIntegral(b) THEN RStr(Repeat(StrText(a), bn))
     ELSE IF sym = "*" /\ IsIntegral(a) /\ kb = "str" THEN RStr(Repeat(StrText(b), an))
     ELSE IF sym = "+" /\ ka = "sel" /\ kb = "sel" THEN Derive(a, SelUnion(a.items, b.items))
     ELSE IF sym = "*" /\ ka = "sel" /\ IsIntegral(b) THEN Derive(a, Repeat(a.items, bn))
     ELSE IF sym = "*" /\ IsIntegral(a) /\ kb = "sel" THEN Derive(b, Repeat(b.items, an))
     ELSE RExc("TypeError")

\* the object a repr-ed argument of call4self evaluates to
ValueOf(pv) ==
  IF pv.t = "int" THEN RInt(pv.n)
  ELSE IF pv.t = "bool" THEN RBool(pv.n = 1)
  ELSE IF pv.t = "none" THEN RNone
  ELSE RStr(pv.text)

\* JPathFunctions._getvalue
GetValue(obj) ==
  IF obj.t = "sel"
  THEN LET r == GetItem(obj.items, 0)
       IN IF r.exc # "" THEN RExc(r.exc) ELSE RNode(r.out[1])
  ELSE obj

\* JPathFunctions.get, count, has, called with the selection and args
LibCall(name, selection, args) ==
  IF name = "get"
  THEN IF Len(args) # 1 THEN RExc("TypeError")
       ELSE LET idx == GetValue(args[1])
            IN IF idx.t = "exc" THEN idx
               ELSE IF ~IsIntegral(idx) THEN RExc("TypeError")
               ELSE LET r == GetItem(selection.items, NumN(idx))
                    IN IF r.exc # "" THEN RExc(r.exc) ELSE RNode(r.out[1])
  ELSE IF name \notin LibraryFuncs THEN RExc("AttributeError")
  ELSE IF Len(args) # 0 THEN RExc("TypeError")
  ELSE IF name = "count" THEN RInt(Len(selection.items))
  ELSE RBool(Len(selection.items) # 0)

\* _jpath_function: the wrapper of every library function refuses a first
\* argument that is no selection
jpath_function(name, first, args) ==
  IF first.t # "sel" THEN RExc("JPathFunctionError") ELSE LibCall(name, first, args)

\* the result of a selection method as a value
Wrap(recv, r) == IF r.exc # "" THEN RExc(r.exc) ELSE Derive(recv, r.out)

RECURSIVE PyEval(_, _, _), EvalChain(_, _, _, _, _), FilterItems(_, _, _, _, _)
RECURSIVE Moved(_, _, _), MovedChain(_, _, _, _, _)

\* the loop of a filter never ends: the call does not return
NoReturn == "no return"
RHang == RExc(NoReturn)

\* the result of filter: the items kept, or the loop that never ends; moved
\* is self.meta["root"]._index after the call, calls the indices of the
\* items the lambda was called on
Looped(hang, items, moved, calls) ==
  [hang |-> hang, items |-> items, moved |-> moved, calls |-> calls]

\* the selection filter returns; calls records the calls that made it
Filtered(recv, f) ==
  IF f.hang THEN RHang ELSE [Derive(recv, f.items) EXCEPT !.calls = f.calls]

\* _index of a selection no iteration has started on
Untouched == 0 - 2

\* _index after two evaluations in a row
Later(m1, m2) == IF m2 = Untouched THEN m1 ELSE m2

\* filter before the first item
NoLoop == Looped(FALSE, <<>>, Untouched, <<>>)

\* -v
Negate(v) ==
  IF v.t = "exc" THEN v
  ELSE IF Kind(v) = "num" THEN Number(0 - NumN(v), NumD(v), IsIntegral(v))
  ELSE RExc("TypeError")

\* l and r, l or r: the value of the operand that decides
ShortCircuit(sym, l) ==
  \/ l.t = "exc"
  \/ sym = "and" /\ ~Truthy(l)
  \/ sym = "or" /\ Truthy(l)

BinOp(sym, l, r) ==
  IF r.t = "exc" \/ sym \in {"and", "or"} THEN r ELSE Arith(sym, l, r)

BinOpLeft(ast, root, cur, l) ==
  IF ShortCircuit(ast.tok.s, l) THEN l
  ELSE BinOp(ast.tok.s, l, PyEval(ast.kids[2], root, cur))

CompareLeft(ast, root, cur, l) ==
  IF l.t = "exc" THEN l ELSE EvalChain(ast, 1, l, root, cur)

\* recv.method(...): the methods are JSelection's; JSelection has no method
\* val; call4self(func, *args) is func(self, *args)
Method(ast, recv) ==
  LET k == ast.tok.k
  IN IF recv.t = "exc" THEN recv
     ELSE IF recv.t # "sel" \/ k = "val" THEN RExc("AttributeError")
     ELSE IF k = "one" THEN Wrap(recv, SelOne(recv.items, ast.tok.s, ast.tok.n = 1))
     ELSE IF k = "all" THEN Wrap(recv, SelAll(recv.items, ast.tok.n = 1))
     ELSE IF k = "el" THEN Wrap(recv, SelEl(recv.items, ast.tok.ix))
     ELSE IF k = "i" THEN Wrap(recv, SelI(recv.items, ast.tok.ix))
     ELSE IF k = "exp" THEN Wrap(recv, SelExp(recv.items))
     ELSE IF k = "filter("
     THEN Filtered(recv, FilterItems(ast.kids[2], recv, 0 - 1, NoLoop, Len(recv.items)))
     ELSE jpath_function(ast.tok.s, recv, [j \in 1 .. Len(ast.tok.vals) |->
                                             ValueOf(ast.tok.vals[j])])

PyEval(ast, root, cur) ==
  IF ast.op = "name"
  THEN IF ast.tok.k = "root" THEN root
       ELSE IF ast.tok.k = "cur" THEN cur
       ELSE RExc("NameError")
  ELSE IF ast.op = "lit" THEN ValueOf(ast.tok.vals[1])
  ELSE IF ast.op = "str" THEN RStr(<<ast.tok>>)
  ELSE IF ast.op = "neg" THEN Negate(PyEval(ast.kids[1], root, cur))
  ELSE IF ast.op = "binop" THEN BinOpLeft(ast, root, cur, PyEval(ast.kids[1], root, cur))
  ELSE IF ast.op = "compare"
  THEN CompareLeft(ast, root, cur, PyEval(ast.kids[1], root, cur))
  ELSE IF ast.op = "call" THEN Method(ast, PyEval(ast.kids[1], root, cur))
  ELSE \* a parenthesised expression
       PyEval(ast.kids[1], root, cur)

ChainResult(ast, j, r, root, cur, res) ==
  IF res.t = "exc" \/ j = Len(ast.ops) \/ ~Truthy(res) THEN res
  ELSE EvalChain(ast, j + 1, r, root, cur)

ChainRight(ast, j, left, root, cur, r) ==
  IF r.t = "exc" THEN r
  ELSE ChainResult(ast, j, r, root, cur, CompareOp(ast.ops[j], left, r))

\* a op1 b op2 c ...: b is evaluated once, the chain stops at the first false
EvalChain(ast, j, left, root, cur) ==
  ChainRight(ast, j, left, root, cur, PyEval(ast.kids[j + 1], root, cur))

\* the items on which the method raises: el does, on a slice of step 0;
\* one, all and exp raise on no item
Raising(ast, recv) ==
  IF ast.tok.k # "el" THEN {}
  ELSE {j \in 1 .. Len(recv.items) : SelEl(<<recv.items[j]>>, ast.tok.ix).exc # ""}

\* _select, el and exp run reduce(..., self, ()): iter(self) sets _index to
\* -1, every next(self) adds one, and an item that raises ends the run there
StoppedAt(raising, n) ==
  IF raising = {} THEN n - 1
  ELSE (CHOOSE j \in raising : \A k \in raising : j <= k) - 1

\* self + value takes tuple(value), which runs over value
Added(sym, l, r) ==
  IF sym = "+" /\ r.t = "sel" /\ r.roots = <<>> /\ Kind(l) = "sel"
  THEN Len(r.items) - 1
  ELSE Untouched

MovedBinOp(ast, root, cur, l) ==
  IF ShortCircuit(ast.tok.s, l) THEN Moved(ast.kids[1], root, cur)
  ELSE Later(Later(Moved(ast.kids[1], root, cur), Moved(ast.kids[2], root, cur)),
             Added(ast.tok.s, l, PyEval(ast.kids[2], root, cur)))

MovedResult(ast, j, r, root, cur, res) ==
  IF res.t = "exc" \/ j = Len(ast.ops) \/ ~Truthy(res)
  THEN Moved(ast.kids[j + 1], root, cur)
  ELSE Later(Moved(ast.kids[j + 1], root, cur), MovedChain(ast, j + 1, r, root, cur))

MovedRight(ast, j, left, root, cur, r) ==
  IF r.t = "exc" THEN Moved(ast.kids[j + 1], root, cur)
  ELSE MovedResult(ast, j, r, root, cur, CompareOp(ast.ops[j], left, r))

MovedChain(ast, j, left, root, cur) ==
  MovedRight(ast, j, left, root, cur, PyEval(ast.kids[j + 1], root, cur))

MovedCompare(ast, root, cur, l) ==
  IF l.t = "exc" THEN Moved(ast.kids[1], root, cur)
  ELSE Later(Moved(ast.kids[1], root, cur), MovedChain(ast, 1, l, root, cur))

\* recv.method(...): a selection that is its own root is the object that
\* root names in every lambda below it, every other selection is a new
\* object; i, call4self and the library functions get, count, has do not
\* run over self
MovedCall(ast, root, cur, recv) ==
  IF recv.t # "sel" THEN Moved(ast.kids[1], root, cur)
  ELSE IF ast.tok.k = "filter("
  THEN Later(Moved(ast.kids[1], root, cur),
             FilterItems(ast.kids[2], recv, 0 - 1, NoLoop, Len(recv.items)).moved)
  ELSE IF recv.roots = <<>> /\ ast.tok.k \in {"one", "all", "el", "exp"}
  THEN StoppedAt(Raising(ast, recv), Len(recv.items))
  ELSE Moved(ast.kids[1], root, cur)

\* root._index after the evaluation of the expression, root the object
\* named root in the lambda of a filter
Moved(ast, root, cur) ==
  IF ast.op \in {"name", "lit", "str"} THEN Untouched
  ELSE IF ast.op = "binop"
  THEN MovedBinOp(ast, root, cur, PyEval(ast.kids[1], root, cur))
  ELSE IF ast.op = "compare"
  THEN MovedCompare(ast, root, cur, PyEval(ast.kids[1], root, cur))
  ELSE IF ast.op = "call" THEN MovedCall(ast, root, cur, PyEval(ast.kids[1], root, cur))
  ELSE Moved(ast.kids[1], root, cur)

Kept(recv, j, acc, v) ==
  IF v.t # "exc" /\ Truthy(v) THEN Append(acc, recv.items[j]) ELSE acc

\* the lambda has returned for the item at index i: the next item is the one
\* after self._index, which the lambda has moved when self is the root
LambdaReturned(body, recv, i, st, fuel, v, mv) ==
  IF v = RHang THEN [st EXCEPT !.hang = TRUE]
  ELSE FilterItems(body, recv, IF recv.roots = <<>> /\ mv # Untouched THEN mv ELSE i,
                   Looped(FALSE, Kept(recv, i + 1, st.items, v), Later(st.moved, mv),
                          Append(st.calls, i)),
                   fuel - 1)

\* JSelection.filter with the lambda of a query, over enumerate(self): idx is
\* self._index, cur is the selection of the one item, root is
\* self.meta["root"]; an exception drops the item.  The loop ends when
\* next(self) finds _index at the last item; a loop that has called the
\* lambda Len(self) times and goes on has been at the same _index twice
\* and never ends (fuel counts the calls left)
FilterItems(body, recv, idx, st, fuel) ==
  IF idx >= Len(recv.items) - 1
  THEN [st EXCEPT !.moved = IF recv.roots = <<>> THEN idx ELSE @]
  ELSE IF fuel = 0 THEN [st EXCEPT !.hang = TRUE]
  ELSE LambdaReturned(body, recv, idx + 1, st, fuel,
                      PyEval(body, RootOf(recv), Derive(recv, <<recv.items[idx + 2]>>)),
                      Moved(body, RootOf(recv), Derive(recv, <<recv.items[idx + 2]>>)))

(***************************************************************************)
(* JPath._parse_and_exec, exec_jpath, exec_jpath_func                      *)
(***************************************************************************)
\* the outcome of a query: the exception raised, or the value and the
\* source that parse() generated
Outcome(exc, val, code) == [exc |-> exc, val |-> val, code |-> code]

Evaluated(code, v) ==
  IF v.t = "exc" THEN Outcome(v.s, RNone, code) ELSE Outcome("", v, code)

EvalAst(code, ast, root, cur) ==
  IF ~ast.ok THEN Outcome("SyntaxError", RNone, code)
  ELSE Evaluated(code, PyEval(ast.ast, root, cur))

\* eval(res, ...): res must be a string of Python source
Eval(res, root, cur) ==
  IF ~res.ok THEN Outcome(res.err, RNone, <<>>)
  ELSE IF res.pv.t # "str" THEN Outcome("TypeError", RNone, StrOf(res.pv))
  ELSE EvalAst(res.pv.text, PyParse(res.pv.text), root, cur)

ParseAndExec(toks, start, tab, cur, root) == Eval(Parse(toks, start, tab), root, cur)

exec_jpath(toks, tab, cur) == ParseAndExec(toks, "jpath", tab, cur, cur)

\* JPath.exec_jpath_filter(expr, cur, root): no handler around the call
exec_jpath_filter(toks, tab, cur, root) ==
  ParseAndExec(toks, "expressionstr", tab, cur, root)

JPathErrors == {"JPathLexicalError", "JPathSyntaxError", "JPathFunctionError"}

\* exec_jpath_func: an exception that is no JPathError is raised again as
\* JPathFunctionError
Rewrap(r) ==
  IF r.exc = "" \/ r.exc \in JPathErrors \/ r.exc = NoReturn THEN r
  ELSE Outcome("JPathFunctionError", RNone, r.code)

exec_jpath_func(toks, tab, cur, root) ==
  Rewrap(ParseAndExec(toks, "function", tab, cur, root))

(***************************************************************************)
(* parse() and the JPath methods on the text of a query.  parser.parse     *)
(* asks the lexer for one token at a time: an exception of the parser at a *)
(* token comes before the lexer has looked at the text after that token.   *)
(***************************************************************************)
\* what parse() gave: the result or the exception, and the lineno and pos
\* the exception carries (located: it carries them); at is the character
\* the token it was raised at starts at
Parsed(res, located, lineno, pos, at) ==
  [res |-> res, located |-> located, lineno |-> lineno, pos |-> pos, at |-> at]

\* p_error: JPathSyntaxError(message, t.lineno, t.lexpos); the exception of
\* p_function carries no position
ParserRaised(L, r) ==
  IF r.err = "JPathSyntaxError"
  THEN Parsed(r, TRUE, L.lineno[r.at], L.lexpos[r.at], L.lexpos[r.at] + 1)
  ELSE Parsed(r, FALSE, 0, 0, 0)

\* t_error: JPathLexicalError(message, t.lineno, t.lexpos), or the
\* IndexError of t.value[1]
LexerRaised(L) ==
  IF L.err = "JPathLexicalError"
  THEN Parsed(Fail(L.err, 0), TRUE, L.errline, L.errpos, L.errpos + 1)
  ELSE Parsed(Fail(L.err, 0), FALSE, 0, 0, 0)

\* the parser on the tokens before the lexer's error: its exception at one
\* of them stands, otherwise it asked for the next token
ParseLexed(L, r) ==
  IF ~r.ok /\ r.at \in 1 .. Len(L.toks) THEN ParserRaised(L, r)
  ELSE IF L.err # "" THEN LexerRaised(L)
  ELSE Parsed(r, FALSE, 0, 0, 0)

ParseTokens(L, start, tab) == ParseLexed(L, Parse(L.toks, start, tab))

\* parse(expr, start)
ParseExpr(expr, start, tab) == ParseTokens(Lex(expr), start, tab)

\* _parse_and_exec on a text
ExecParsed(p, root, cur) == [p EXCEPT !.res = Eval(p.res, root, cur)]

ExecExpr(expr, start, tab, cur, root) ==
  ExecParsed(ParseExpr(expr, start, tab), root, cur)

\* exec_jpath_func on a text: the exception raised again as
\* JPathFunctionError(str(ex)) carries no position
RewrapExpr(p) ==
  IF p.res.exc = "" \/ p.res.exc \in JPathErrors \/ p.res.exc = NoReturn THEN p
  ELSE Parsed(Rewrap(p.res), FALSE, 0, 0, 0)

(***************************************************************************)
(* The fluent session: a root selection and a chain of operators on it.    *)
(***************************************************************************)
NoIdx == IntIdx(0)
NoPred == [p \in 0 .. MaxPos - 1 |-> "F"]

\* a query: its tokens, the rule parse() starts from, the function table,
\* and the parts it was put together from
Query(fam, toks, start, tab, x, form, k, op, c, list, fn, arg) ==
  [fam |-> fam, toks |-> toks, start |-> start, tab |-> tab, x |-> x, form |-> form,
   k |-> k, op |-> op, c |-> c, list |-> list, fn |-> fn, arg |-> arg]

NoQuery == Query("", <<>>, "", DefaultTable, 1, "", "", tNULL, tNULL, <<>>, "", <<>>)

Rec(op, key, deep, ix, pred, in, r) ==
  [op |-> op, key |-> key, deep |-> deep, ix |-> ix, pred |-> pred,
   in |-> in, out |-> r.out, exc |-> r.exc, calls |-> r.calls,
   q |-> NoQuery, val |-> RNone, code |-> <<>>,
   expr |-> <<>>, located |-> FALSE, lineno |-> 0, pos |-> 0, at |-> 0,
   self |-> 0, root |-> 0]

\* the record of a query: out is the items of the selection it gave, calls
\* the calls of the lambda by the filter that made it
QRecOn(op, q, cur, r) ==
  [op |-> op, key |-> "", deep |-> FALSE, ix |-> NoIdx, pred |-> NoPred,
   in |-> cur.items, out |-> r.val.items, exc |-> r.exc,
   calls |-> r.val.calls,
   q |-> q, val |-> r.val, code |-> r.code,
   expr |-> <<>>, located |-> FALSE, lineno |-> 0, pos |-> 0, at |-> 0,
   self |-> 0, root |-> 0]

\* a query on the root selection built on in
QRec(op, q, in, r) == QRecOn(op, q, RSel(in, <<>>), r)

\* the record of a query given as a text
TRec(op, expr, in, p) ==
  [QRec(op, NoQuery, in, p.res) EXCEPT !.expr = expr, !.located = p.located,
                                         !.lineno = p.lineno, !.pos = p.pos, !.at = p.at]

Ints == (0 - MaxIdx) .. MaxIdx
\* the indices a list draws from: both ends of the range and the middle
ListInts == {0 - MaxIdx, 0 - 1, 0, 1, MaxIdx}
IndexArgs ==
  {IntIdx(x) : x \in Ints} \cup
  {ListIdx(xs) : xs \in {<<a, b>> : a \in ListInts, b \in ListInts}} \cup
  {ListIdx(<<3, 0 - 1, 2, 1, 0>>), ListIdx(<<>>)} \cup
  {SliceIdx(a, b, c) : a \in {<<>>, <<1>>}, b \in {<<>>, <<0 - 1>>},
                       c \in {<<>>, <<0 - 1>>, <<0>>}}

\* one thread: the sessions of one caller have no threads at work, and the
\* cursor _index of a selection is part of the calls that run over it
NoThreads == threads = <<>> /\ index = 0 - 1

\* the root selection, built by the caller with keyword arguments kw
Built(kw) ==
  /\ stored = <<>>
  /\ sel \in BSeq(Tops, MaxItems)
  /\ objs = <<JSelection(<<>>, sel, 0, kw)>>
  /\ last = Rec("new", "", FALSE, NoIdx, NoPred, <<>>, Ok(sel))
  /\ steps = 0
  /\ NoThreads

Init == Built(NoKw)

\* a traversal that consumes the arrays it is given (pops their elements)
StoresInPlace(items) ==
  {[at |-> n, kids |-> <<>>] : n \in {x \in Range(items) : Documents[x].t = "arr"}}

\* the assignments into values of the documents made by a call on items: the
\* operators and the evaluator collect into tuples of their own and build new
\* selections, and assign to no element of a value
Stores(items) == {}

\* the assigned elements after the assignments st
Written(w, st) ==
  [n \in DOMAIN w \cup {s.at : s \in st} |->
     IF \E s \in st : s.at = n
     THEN (CHOOSE s \in st : s.at = n).kids
     ELSE w[n]]

\* the chain goes on with the operator's result, or stops where it raised
Chain(rec) ==
  /\ steps < MaxSteps
  /\ last.exc = ""
  /\ steps' = steps + 1
  /\ UNCHANGED <<threads, index>>
  /\ last' = rec
  /\ sel' = IF rec.exc = "" THEN rec.out ELSE sel
  /\ stored' = Written(stored, Stores(sel))

\* a step of the fluent session, which keeps the current object alone: the
\* result takes the place of the object the operator was called on
Step(rec) ==
  /\ Chain(rec)
  /\ objs' = IF rec.exc = "" THEN <<[Self EXCEPT !.items = rec.out]>> ELSE objs

\* the calls on the current selection
CallOne(key, deep) == Rec("one", key, deep, NoIdx, NoPred, sel, SelOne(sel, key, deep))
CallAll(deep) == Rec("all", "", deep, NoIdx, NoPred, sel, SelAll(sel, deep))
CallEl(ix) == Rec("el", "", FALSE, ix, NoPred, sel, SelEl(sel, ix))
CallI(ix) == Rec("i", "", FALSE, ix, NoPred, sel, SelI(sel, ix))
CallExp == Rec("exp", "", FALSE, NoIdx, NoPred, sel, SelExp(sel))
CallFilter(pred) == Rec("filter", "", FALSE, NoIdx, pred, sel, SelFilter(sel, pred))

One(key, deep) == Step(CallOne(key, deep))

All(deep) == Step(CallAll(deep))

El(ix) == Step(CallEl(ix))

I(ix) == Step(CallI(ix))

Exp == Step(CallExp)

Filter(pred) == Step(CallFilter(pred))

Next ==
  \/ \E k \in Keys, d \in BOOLEAN : One(k, d)
  \/ \E d \in BOOLEAN : All(d)
  \/ \E ix \in IndexArgs : El(ix)
  \/ \E ix \in IndexArgs : I(ix)
  \/ Exp
  \/ \E p \in Preds : Filter(p)

Spec == Init /\ [][Next]_vars

(***************************************************************************)
(* The object session: the operators, call4each and the union applied to   *)
(* a root selection built with keyword arguments, each result a new        *)
(* object.                                                                 *)
(***************************************************************************)
\* keyword arguments of the root: none, iters_by_idx=(list,), and
\* ex_iters_by_idx=(dict, str, list)
KwArgs ==
  {NoKw, [NoKw EXCEPT !.iters_by_idx = {"arr"}],
   [NoKw EXCEPT !.ex_iters_by_idx = {"obj", "str", "arr"}]}

InitObj == \E kw \in KwArgs : Built(kw)

\* the functions given to call4each: lambda x: x and lambda x: x["a"]
Funcs == {"same", "item_a"}

\* func(item): the value returned, or nothing when the call raised
Applied(fn, n) ==
  IF fn = "same" THEN <<n>>
  ELSE IF Heap[n].t = "obj" /\ HasKey(n, "a") THEN <<GetKey(n, "a")>>
  ELSE <<>>

\* JSelection.call4each: results of the calls that did not raise
SelCall4Each(items, fn) ==
  Flatten([j \in 1 .. Len(items) |-> Applied(fn, items[j])])

\* a step of the object session: the result is a new object
Produce(rec) ==
  /\ Chain(rec)
  /\ objs' = IF rec.exc = "" THEN Append(objs, Derived(objs, Len(objs), rec.out))
             ELSE objs

Call4Each(fn) ==
  Produce(Rec("call4each", fn, FALSE, NoIdx, NoPred, sel, Ok(SelCall4Each(sel, fn))))

\* self + value, value a root selection the caller built on the items b
Union(b) ==
  LET os == Append(objs, JSelection(objs, b, 0, NoKw))
  IN /\ steps < MaxSteps
     /\ last.exc = ""
     /\ steps' = steps + 1
     /\ UNCHANGED <<threads, index>>
     /\ last' = Rec("union", "", FALSE, NoIdx, NoPred, sel, Ok(SelUnion(sel, b)))
     /\ sel' = SelUnion(sel, b)
     /\ objs' = Append(os, Derived(os, Len(objs), SelUnion(sel, b)))
     /\ stored' = Written(stored, Stores(sel \o b))

\* the arguments the object session draws from
ObjIndexArgs == {IntIdx(0), ListIdx(<<1, 0>>)}
ObjPreds == {[p \in 0 .. MaxPos - 1 |-> o] : o \in {"T", "E"}}
Others == {<<>>, <<2>>, <<8, 14>>}

NextObj ==
  \/ \E d \in BOOLEAN : Produce(CallOne("a", d))
  \/ \E d \in BOOLEAN : Produce(CallAll(d))
  \/ \E ix \in ObjIndexArgs : Produce(CallEl(ix))
  \/ \E ix \in ObjIndexArgs : Produce(CallI(ix))
  \/ Produce(CallExp)
  \/ \E p \in ObjPreds : Produce(CallFilter(p))
  \/ \E fn \in Funcs : Call4Each(fn)
  \/ \E b \in Others : Union(b)

SpecObj == InitObj /\ [][NextObj]_vars

(***************************************************************************)
(* The root session: two selections built by the caller, the operators,    *)
(* the union and call4each called on any selection there is, each result a *)
(* new object, and setroot.  An object is named by its place in objs; self *)
(* is the object a call was made on, root the argument of setroot or the   *)
(* root the predicate of filter was called with.                           *)
(***************************************************************************)
MaxCalls == 2

\* the items the caller builds selections on
RootItems == {<<>>, <<1>>, <<8, 1>>}

\* JSelection(*a) and JSelection(*b)
Two(a, b) == Append(<<JSelection(<<>>, a, 0, NoKw)>>,
                    JSelection(<<JSelection(<<>>, a, 0, NoKw)>>, b, 0, NoKw))

InitRoot ==
  /\ stored = <<>>
  /\ sel \in RootItems
  /\ \E a \in RootItems : objs = Two(a, sel)
  /\ last = Rec("new", "", FALSE, NoIdx, NoPred, <<>>, Ok(sel))
  /\ steps = 0
  /\ NoThreads

\* the record of a call on the object s
RRec(op, s, r, res) ==
  [Rec(op, "", FALSE, NoIdx, NoPred, objs[s].items, res) EXCEPT !.self = s, !.root = r]

\* s.setroot(r): self.meta["root"] = root
SetRoot(s, r) ==
  /\ steps < MaxCalls
  /\ steps' = steps + 1
  /\ UNCHANGED <<threads, index>>
  /\ objs' = [objs EXCEPT ![s].root = r]
  /\ last' = RRec("setroot", s, r, Ok(objs[s].items))
  /\ UNCHANGED <<sel, stored>>

\* a call on s that returns self.__class__(*items, **self.meta)
Made(op, s, r, res) ==
  /\ steps < MaxCalls
  /\ steps' = steps + 1
  /\ UNCHANGED <<threads, index>>
  /\ last' = RRec(op, s, r, res)
  /\ objs' = IF res.exc = "" THEN Append(objs, Derived(objs, s, res.out)) ELSE objs
  /\ sel' = IF res.exc = "" THEN res.out ELSE sel
  /\ stored' = Written(stored, Stores(objs[s].items))

\* the predicate that holds of every item
Always == [p \in 0 .. MaxPos - 1 |-> "T"]

\* filter calls func(idx, cur, self.meta["root"]) for every item
RootPassed(s) == IF objs[s].items = <<>> THEN 0 ELSE objs[s].root

OneOn(s) == Made("one", s, 0, SelOne(objs[s].items, "a", FALSE))
AllOn(s) == Made("all", s, 0, SelAll(objs[s].items, FALSE))
ElOn(s) == Made("el", s, 0, SelEl(objs[s].items, IntIdx(0)))
IOn(s) == Made("i", s, 0, SelI(objs[s].items, IntIdx(0)))
ExpOn(s) == Made("exp", s, 0, SelExp(objs[s].items))
FilterOn(s) == Made("filter", s, RootPassed(s), SelFilter(objs[s].items, Always))
Call4EachOn(s) == Made("call4each", s, 0, Ok(SelCall4Each(objs[s].items, "same")))
UnionOn(s, t) == Made("union", s, 0, Ok(SelUnion(objs[s].items, objs[t].items)))

Made4 == {"one", "all", "el", "i", "exp", "filter", "call4each", "union"}

NextRoot ==
  \/ \E s \in 1 .. Len(objs), r \in 1 .. Len(objs) : SetRoot(s, r)
  \/ \E s \in 1 .. Len(objs) : OneOn(s)
  \/ \E s \in 1 .. Len(objs) : AllOn(s)
  \/ \E s \in 1 .. Len(objs) : ElOn(s)
  \/ \E s \in 1 .. Len(objs) : IOn(s)
  \/ \E s \in 1 .. Len(objs) : ExpOn(s)
  \/ \E s \in 1 .. Len(objs) : FilterOn(s)
  \/ \E s \in 1 .. Len(objs) : Call4EachOn(s)
  \/ \E s \in 1 .. Len(objs), t \in 1 .. Len(objs) : UnionOn(s, t)

SpecRoot == InitRoot /\ [][NextRoot]_vars

(***************************************************************************)
(* The query session: queries run on a root selection by JPath.exec_jpath  *)
(* and JPath.exec_jpath_func.                                              *)
(***************************************************************************)
\* the selections X that the queries go on from: $, $[*], $.."a", $.*
Prefixes ==
  << <<tROOT>>, <<tROOT, tLSQ, tMULT, tRSQ>>, <<tROOT, tDEEP, tSTRING("a")>>,
     <<tROOT, tDOT, tMULT>> >>

\* the tokens of an integer literal with its sign, and of a list of them
IntToks(x) == IF x >= 0 THEN <<tINT(x)>> ELSE <<tMINUS, tINT(0 - x)>>
RECURSIVE ListToks(_)
ListToks(xs) ==
  IF xs = <<>> THEN <<>>
  ELSE IF Len(xs) = 1 THEN IntToks(xs[1])
  ELSE IntToks(xs[1]) \o <<tCOMMA>> \o ListToks(Tail(xs))

CmpOps == {tOP("EQ", "="), tOP("NE", "!="), tOP("LT", "<"), tOP("LE", "<="),
           tOP("GT", ">"), tOP("GE", ">=")}
Literals == {tINT(1), tSTRING("abc"), tFALSE, tNULL}

\* X[@."k" op c]
CmpQueries ==
  {Query("cmp", Prefixes[x] \o <<tLSQ, tAT, tDOT, tSTRING(k), op, c, tRSQ>>,
         "jpath", DefaultTable, x, "", k, op, c, <<>>, "", <<>>) :
     x \in {1, 2}, k \in {"a", "k"}, op \in CmpOps, c \in Literals}

\* X[n] and X.[n]
PickQueries ==
  {Query("pick", Prefixes[x] \o (IF form = "i" THEN <<tLSQ>> ELSE <<tDOT, tLSQ>>)
                   \o IntToks(n) \o <<tRSQ>>,
         "jpath", DefaultTable, x, form, "", tNULL, tNULL, <<n>>, "", <<>>) :
     x \in 1 .. Len(Prefixes), form \in {"i", "el"}, n \in Ints}

\* X[n1,n2,...] and X.[n1,n2,...]
IndexLists ==
  {<<a, b>> : a \in ListInts, b \in ListInts} \cup {<<3, 0 - 1, 2, 1, 0>>, <<3, 2, 1, 0>>}
ListQueries ==
  {Query("list", Prefixes[x] \o (IF form = "i" THEN <<tLSQ>> ELSE <<tDOT, tLSQ>>)
                   \o ListToks(xs) \o <<tRSQ>>,
         "jpath", DefaultTable, x, form, "", tNULL, tNULL, xs, "", <<>>) :
     x \in {3}, form \in {"i", "el"}, xs \in IndexLists}

\* the names a query calls: functions of the library, an attribute that is
\* no function, and a name the table does not have
FuncNames == {"count", "has", "ver", "nope"}

\* fn($), and fn(@) in a filter: X[fn(@)] and X[count(@) = fn(@)]
CallToks(form, fn) ==
  IF form = "func" THEN <<tFUNCNAME(fn), tLPAR, tROOT, tRPAR>>
  ELSE IF form = "filter"
  THEN <<tROOT, tLSQ, tMULT, tRSQ, tLSQ, tFUNCNAME(fn), tLPAR, tAT, tRPAR, tRSQ>>
  ELSE <<tROOT, tLSQ, tMULT, tRSQ, tLSQ, tFUNCNAME("count"), tLPAR, tAT, tRPAR,
         tOP("EQ", "="), tFUNCNAME(fn), tLPAR, tAT, tRPAR, tRSQ>>
CallQueries ==
  {Query("call", CallToks(form, fn), IF form = "func" THEN "function" ELSE "jpath",
         tab, 1, form, "", tNULL, tNULL, <<>>, fn, <<>>) :
     form \in {"func", "filter", "nested"}, fn \in FuncNames, tab \in Tables}

\* the arguments after the first: literals, a negated number, arithmetic,
\* a call, jpaths
ArgToks ==
  {<<tINT(n)>> : n \in 0 .. MaxIdx} \cup {<<tTRUE>>, <<tNULL>>} \cup
  {<<tMINUS, tINT(n)>> : n \in 1 .. MaxIdx} \cup
  {<<tINT(0), tPLUS, tINT(1)>>, <<tINT(2), tMINUS, tINT(1)>>,
   <<tFUNCNAME("count"), tLPAR, tROOT, tRPAR>>,
   <<tROOT, tDOT, tLSQ, tINT(0), tRSQ>>, <<tROOT, tDEEP, tSTRING("a")>>,
   <<tAT, tLSQ, tMULT, tRSQ>>}

\* get(X, arg)
ArgQueries ==
  {Query("arg", <<tFUNCNAME("get"), tLPAR>> \o Prefixes[x] \o <<tCOMMA>> \o arg
                  \o <<tRPAR>>,
         "function", DefaultTable, x, "func", "", tNULL, tNULL, <<>>, "get", arg) :
     x \in {1, 2}, arg \in ArgToks}

\* calls that raise: get(X, n) out of range (IndexError), get(X, null)
\* (TypeError), a name that is no function, a call cut short; and calls that
\* return.  Each as a bare function and as a filter expression
RaiseToks(x) ==
  {<<tFUNCNAME("get"), tLPAR>> \o Prefixes[x] \o <<tCOMMA>> \o arg \o <<tRPAR>> :
     arg \in {<<tINT(n)>> : n \in 0 .. MaxIdx} \cup {<<tNULL>>}} \cup
  {<<tFUNCNAME("nope"), tLPAR>> \o Prefixes[x] \o <<tRPAR>>,
   <<tFUNCNAME("count"), tLPAR>> \o Prefixes[x] \o <<tRPAR>>,
   <<tFUNCNAME("get"), tLPAR>> \o Prefixes[x]}
RaiseQueries ==
  {Query("raise", toks, start, DefaultTable, x, "", "", tNULL, tNULL, <<>>, toks[1].s, <<>>) :
     toks \in RaiseToks(1) \cup RaiseToks(2), x \in {1}, start \in {"function", "expressionstr"}}

\* fn(c) with c a scalar literal: as a bare function, as a filter expression
\* and in a filter, X[fn(c)]
ScalarToks(form, fn, c) ==
  IF form = "filter"
  THEN <<tROOT, tLSQ, tMULT, tRSQ, tLSQ, tFUNCNAME(fn), tLPAR, c, tRPAR, tRSQ>>
  ELSE <<tFUNCNAME(fn), tLPAR, c, tRPAR>>
ScalarQueries ==
  {Query("scalar", ScalarToks(form, fn, c),
         IF form = "func" THEN "function"
         ELSE IF form = "expr" THEN "expressionstr" ELSE "jpath",
         DefaultTable, 1, form, "", tNULL, c, <<>>, fn, <<>>) :
     form \in {"func", "expr", "filter"}, fn \in {"count", "has"},
     c \in {tINT(1), tSTRING("abc"), tTRUE, tNULL}}

\* the jpaths that stand as operands: $.."a".[1] and $."b"."a"
OperandPaths ==
  << <<tROOT, tDEEP, tSTRING("a"), tDOT, tLSQ, tINT(1), tRSQ>>,
     <<tROOT, tDOT, tSTRING("b"), tDOT, tSTRING("a")>> >>

OperandOps == {tOP("EQ", "="), tOP("LT", "<"), tPLUS, tMULT}

\* J op c, c op J and J op J' as filter expressions
OperandToks(form, x, y, op, c) ==
  IF form = "left" THEN OperandPaths[x] \o <<op, c>>
  ELSE IF form = "right" THEN <<c, op>> \o OperandPaths[x]
  ELSE OperandPaths[x] \o <<op>> \o OperandPaths[y]

OperandQueries ==
  {Query("operand", OperandToks(form, x, y, op, c), "expressionstr", DefaultTable,
         x, form, "", op, c, <<y>>, "", <<>>) :
     form \in {"left", "right", "both"}, x \in {1, 2}, y \in {1, 2},
     op \in OperandOps, c \in {tINT(1), tINT(2)}}

\* A op1 B op2 C, the operators and, or and the operands true, false
LogicQueries ==
  {Query("logic", <<a, op1, b, op2, c>>, "expressionstr", DefaultTable,
         1, "", "", op1, c, <<>>, "", <<>>) :
     a \in {tTRUE, tFALSE}, b \in {tTRUE, tFALSE}, c \in {tTRUE, tFALSE},
     op1 \in {tOP("AND", "and"), tOP("OR", "or")},
     op2 \in {tOP("AND", "and"), tOP("OR", "or")}}

ChainOps == {tOP("EQ", "="), tOP("NE", "!="), tOP("LT", "<"), tOP("GT", ">")}

\* a op1 b op2 c, the operators comparisons and the operands integers
ChainQueries ==
  {Query("chain", <<tINT(a), op1, tINT(b), op2, tINT(c)>>, "expressionstr",
         DefaultTable, 1, "", "", op1, tINT(c), <<>>, "", <<>>) :
     a \in {1, 2}, b \in {1, 2}, c \in {1, 2}, op1 \in ChainOps, op2 \in ChainOps}

MismatchOps == {tOP("LT", "<"), tPLUS, tMINUS}

\* a op b, the operands literals of every type
MismatchQueries ==
  {Query("mismatch", <<a, op, b>>, "expressionstr", DefaultTable, 1, "", "", op, b,
         <<>>, "", <<>>) :
     a \in Literals, b \in Literals, op \in MismatchOps}

\* the predicates that are a jpath on @ or on $, and one that joins two
BarePreds ==
  << <<tAT, tDOT, tSTRING("a")>>, <<tAT, tDOT, tSTRING("k")>>,
     <<tAT, tLSQ, tROOT, tDOT, tSTRING("a"), tRSQ>>,
     <<tROOT, tDOT, tSTRING("a")>>, <<tROOT, tLSQ, tINT(0), tRSQ>>,
     <<tROOT, tDOT, tLSQ, tSLICE, tSLICE, tINT(0), tRSQ>>,
     <<tAT, tDOT, tSTRING("b"), tOP("OR", "or"), tROOT, tDOT, tSTRING("a")>> >>

\* X[J]
BareQueries ==
  {Query("bare", Prefixes[x] \o <<tLSQ>> \o BarePreds[j] \o <<tRSQ>>, "jpath",
         DefaultTable, x, IF j = Len(BarePreds) THEN "or" ELSE "jpath", "", tNULL,
         tNULL, <<>>, "", BarePreds[j]) :
     x \in 1 .. Len(Prefixes), j \in 1 .. Len(BarePreds)}

\* X."*" and X.."*", the key the quoted string of the one character *
StarQueries ==
  {Query("star", Prefixes[x] \o <<IF deep = 1 THEN tDEEP ELSE tDOT, tSTRING("*")>>,
         "jpath", DefaultTable, x, "", "*", tNULL, tINT(deep), <<>>, "", <<>>) :
     x \in 1 .. Len(Prefixes), deep \in {0, 1}}

Queries ==
  BareQueries \cup StarQueries \cup CmpQueries \cup PickQueries \cup ListQueries \cup CallQueries \cup ArgQueries \cup
  RaiseQueries \cup ScalarQueries \cup OperandQueries \cup LogicQueries \cup
  ChainQueries \cup MismatchQueries

\* the selection built on the values of sel: it is its own root
Root(items) == RSel(items, <<>>)

\* JPath.exec_jpath(expr, cur): one call, on the selection the caller built
ExecJPath(q) ==
  /\ last.op = "new"
  /\ q.start = "jpath"
  /\ last' = QRec("exec_jpath", q, sel, exec_jpath(q.toks, q.tab, Root(sel)))
  /\ sel' = IF last'.exc = "" THEN last'.out ELSE sel
  /\ steps' = steps + 1
  /\ UNCHANGED <<threads, index>>
  /\ stored' = Written(stored, Stores(sel))
  /\ UNCHANGED objs

\* JPath.exec_jpath_func(expr, cur, root), cur and root the same selection
ExecJPathFunc(q) ==
  /\ last.op = "new"
  /\ q.start = "function"
  /\ last' = QRec("exec_jpath_func", q, sel, exec_jpath_func(q.toks, q.tab, Root(sel), Root(sel)))
  /\ steps' = steps + 1
  /\ UNCHANGED <<threads, index>>
  /\ stored' = Written(stored, Stores(sel))
  /\ UNCHANGED <<sel, objs>>

\* JPath.exec_jpath_filter(expr, cur, root), cur and root the same selection
ExecJPathFilter(q) ==
  /\ last.op = "new"
  /\ q.start = "expressionstr"
  /\ last' = QRec("exec_jpath_filter", q, sel,
                  exec_jpath_filter(q.toks, q.tab, Root(sel), Root(sel)))
  /\ steps' = steps + 1
  /\ UNCHANGED <<threads, index>>
  /\ stored' = Written(stored, Stores(sel))
  /\ UNCHANGED <<sel, objs>>

NextJPath ==
  \/ \E q \in Queries : ExecJPath(q)
  \/ \E q \in Queries : ExecJPathFunc(q)
  \/ \E q \in Queries : ExecJPathFilter(q)

SpecJPath == Init /\ [][NextJPath]_vars

(***************************************************************************)
(* The session on derived selections: a query run by JPath.exec_jpath on   *)
(* the root selection the caller built or on a selection made from it.     *)
(***************************************************************************)
\* the items of meta["root"] of the object s, of that one's meta["root"], ...
RECURSIVE RootsOf(_, _)
RootsOf(os, s) ==
  IF os[s].root = s THEN <<>>
  ELSE <<os[os[s].root].items>> \o RootsOf(os, os[s].root)

\* the newest object as a value of the evaluator
SelfValue == RSel(Self.items, RootsOf(objs, Len(objs)))

\* $[J], J a predicate on $ that does not run over it: $[$[0]], $[$[1]],
\* $[count($) = 1], $[count($) = 2]
RootPreds ==
  {<<tROOT, tLSQ, tINT(n), tRSQ>> : n \in {0, 1}} \cup
  {<<tFUNCNAME("count"), tLPAR, tROOT, tRPAR, tOP("EQ", "="), tINT(n)>> : n \in {1, 2}}

RootQueries ==
  {Query("root", <<tROOT, tLSQ>> \o p \o <<tRSQ>>, "jpath", DefaultTable, 1, "", "",
         tNULL, tNULL, <<>>, "", p) : p \in RootPreds}

\* JPath.exec_jpath(expr, cur), cur the newest selection
ExecJPathOn(q) ==
  /\ last.exc = ""
  /\ last.op # "exec_jpath"
  /\ last' = QRecOn("exec_jpath", q, SelfValue, exec_jpath(q.toks, q.tab, SelfValue))
  /\ steps' = steps + 1
  /\ UNCHANGED <<threads, index>>
  /\ stored' = Written(stored, Stores(sel))
  /\ UNCHANGED <<sel, objs>>

NextDerived ==
  \/ Produce(CallOne("a", FALSE))
  \/ Produce(CallI(IntIdx(0)))
  \/ Produce(CallExp)
  \/ \E q \in RootQueries : ExecJPathOn(q)

SpecDerived == Init /\ [][NextDerived]_vars

(***************************************************************************)
(* The concurrent session: two threads, each running one query $."key" by  *)
(* JPath.exec_jpath on the same root selection object.  parse builds the   *)
(* lexer and the parser of the call; the lambda calls root.one(key), and   *)
(* _select runs reduce(select, self, ()) over the selection, which is its  *)
(* own iterator with the one cursor self._index.  A thread may be switched *)
(* out between any two steps: the call of __iter__, the test of __next__,  *)
(* the read and the write of self._index += 1, and self[self._index].      *)
(***************************************************************************)
ThreadKeys == {"a", "k"}

Thread(key, pc, loaded, jselection, exc, out) ==
  [key |-> key, pc |-> pc, loaded |-> loaded, jselection |-> jselection,
   exc |-> exc, out |-> out]

InitThreads ==
  /\ stored = <<>>
  /\ sel \in BSeq(Tops, MaxItems)
  /\ objs = <<JSelection(<<>>, sel, 0, NoKw)>>
  /\ last = Rec("new", "", FALSE, NoIdx, NoPred, <<>>, Ok(sel))
  /\ steps = 0
  /\ index = 0 - 1
  /\ \E k1 \in ThreadKeys, k2 \in ThreadKeys :
       threads = <<Thread(k1, "parse", 0, <<>>, "", <<>>),
                   Thread(k2, "parse", 0, <<>>, "", <<>>)>>

\* the query of the thread t as the lexer gives it
ThreadQuery(t) == <<tROOT, tDOT, tSTRING(threads[t].key)>>

At(t, pc) == t \in DOMAIN threads /\ threads[t].pc = pc

Goes(t, pc) == threads' = [threads EXCEPT ![t].pc = pc]

\* parse(expr): the lexer and the parser are made by the call
ParseCall(t) ==
  /\ At(t, "parse")
  /\ Goes(t, IF Parse(ThreadQuery(t), "jpath", DefaultTable).err = "" THEN "iter" ELSE "done")
  /\ UNCHANGED <<sel, last, steps, objs, stored, index>>

\* __iter__: self._index = -1
IterStep(t) ==
  /\ At(t, "iter")
  /\ index' = 0 - 1
  /\ Goes(t, "next")
  /\ UNCHANGED <<sel, last, steps, objs, stored>>

\* __next__: if self._index < len(self) - 1, else StopIteration, which ends
\* reduce; _select returns self.__class__(*jselection, **self.meta)
NextStep(t) ==
  /\ At(t, "next")
  /\ IF index < Len(sel) - 1
     THEN Goes(t, "load")
     ELSE threads' = [threads EXCEPT ![t].pc = "done", ![t].out = threads[t].jselection]
  /\ UNCHANGED <<sel, last, steps, objs, stored, index>>

\* self._index += 1: the value is read
LoadStep(t) ==
  /\ At(t, "load")
  /\ threads' = [threads EXCEPT ![t].pc = "store", ![t].loaded = index]
  /\ UNCHANGED <<sel, last, steps, objs, stored, index>>

\* self._index += 1: the sum is written
StoreStep(t) ==
  /\ At(t, "store")
  /\ index' = threads[t].loaded + 1
  /\ Goes(t, "getitem")
  /\ UNCHANGED <<sel, last, steps, objs, stored>>

\* return self[self._index], and select(jselection, select_from) on the item
Fetched(t, r) ==
  IF r.exc # ""
  THEN [threads EXCEPT ![t].pc = "done", ![t].exc = r.exc]
  ELSE [threads EXCEPT ![t].pc = "next",
                       ![t].jselection = select(@, r.out[1], threads[t].key, FALSE, FALSE)]

GetItemStep(t) ==
  /\ At(t, "getitem")
  /\ threads' = Fetched(t, GetItem(sel, index))
  /\ UNCHANGED <<sel, last, steps, objs, stored, index>>

NextThreads ==
  \/ \E t \in 1 .. 2 : ParseCall(t)
  \/ \E t \in 1 .. 2 : IterStep(t)
  \/ \E t \in 1 .. 2 : NextStep(t)
  \/ \E t \in 1 .. 2 : LoadStep(t)
  \/ \E t \in 1 .. 2 : StoreStep(t)
  \/ \E t \in 1 .. 2 : GetItemStep(t)

SpecThreads == InitThreads /\ [][NextThreads]_vars

(***************************************************************************)
(* The text session: one query, given as a text, on a selection.           *)
(***************************************************************************)
MaxText == 4

\* the pieces the texts are made of: tokens, a character of no token, the
\* newline, the backslash, the blank and the quote.  The texts hold no digit,
\* so the lexer gives no INT and no FLOAT token here
Pieces == {<<"$">>, <<".">>, <<"\"", "a", "\"">>, <<"#">>, <<"\n">>, <<"\\">>,
           <<" ">>, <<"\"">>}

Texts == {Flatten(ps) : ps \in BSeq(Pieces, MaxText)}

InitText == Built(NoKw) /\ sel \in {<<>>, <<1>>}

\* what a call of the text session leaves alone
Called ==
  /\ steps' = steps + 1
  /\ UNCHANGED <<threads, index>>
  /\ stored' = Written(stored, Stores(sel))
  /\ UNCHANGED <<sel, objs>>

\* JPath.exec_jpath(expr, cur)
ExecText(expr) ==
  /\ last.op = "new"
  /\ last' = TRec("exec_jpath", expr, sel,
                  ExecExpr(expr, "jpath", DefaultTable, Root(sel), Root(sel)))
  /\ Called

\* JPath.exec_jpath_filter(expr, cur, root)
ExecTextFilter(expr) ==
  /\ last.op = "new"
  /\ last' = TRec("exec_jpath_filter", expr, sel,
                  ExecExpr(expr, "expressionstr", DefaultTable, Root(sel), Root(sel)))
  /\ Called

\* JPath.exec_jpath_func(expr, cur, root)
ExecTextFunc(expr) ==
  /\ last.op = "new"
  /\ last' = TRec("exec_jpath_func", expr, sel,
                  RewrapExpr(ExecExpr(expr, "function", DefaultTable, Root(sel), Root(sel))))
  /\ Called

\* one call in a session
NextText ==
  \/ last.op = "new" /\ \E expr \in Texts : ExecText(expr)
  \/ last.op = "new" /\ \E expr \in Texts : ExecTextFilter(expr)
  \/ last.op = "new" /\ \E expr \in Texts : ExecTextFunc(expr)

SpecText == InitText /\ [][NextText]_vars

(***************************************************************************)
(* Properties of the selection operators.                                  *)
(***************************************************************************)
\* how many times v occurs in q
Count(q, v) == Cardinality({i \in 1 .. Len(q) : q[i] = v})

\* every value reachable from n through object values and array elements,
\* n included
RECURSIVE Reach(_)
Reach(n) ==
  {n} \cup (IF Heap[n].t \in {"obj", "arr"}
            THEN UNION {Reach(Kids(n)[i]) : i \in 1 .. Len(Kids(n))}
            ELSE {})

\* the values stored under key k in the objects reachable from n
StoredUnder(n, k) ==
  {GetKey(o, k) : o \in {x \in Reach(n) : Heap[x].t = "obj" /\ HasKey(x, k)}}

\* the values stored under any key in the objects reachable from n
StoredAny(n) ==
  UNION {Range(Kids(o)) : o \in {x \in Reach(n) : Heap[x].t = "obj"}}

\* the matches of key k in the tree of n in depth-first pre-order
RECURSIVE PreOrder(_, _)
PreOrder(n, k) ==
  IF Heap[n].t = "obj"
  THEN (IF HasKey(n, k) THEN <<GetKey(n, k)>> ELSE <<>>) \o
       Flatten([i \in 1 .. Len(Kids(n)) |-> PreOrder(Kids(n)[i], k)])
  ELSE IF Heap[n].t = "arr"
  THEN Flatten([i \in 1 .. Len(Kids(n)) |-> PreOrder(Kids(n)[i], k)])
  ELSE <<>>

\* C2: one(k, deep=True) returns the values stored under k in the objects
\* reachable from the items, each occurrence once, in depth-first pre-order
\* (an object's own value before the matches inside its values, values in
\* insertion order, array elements in index order).
C2_OneDeepPreOrder ==
  (last.op = "one" /\ last.deep) =>
    /\ last.exc = ""
    /\ last.out = Flatten([i \in 1 .. Len(last.in) |-> PreOrder(last.in[i], last.key)])
    /\ \A v \in Nodes :
         Count(last.out, v) =
           Cardinality({i \in 1 .. Len(last.in) : v \in StoredUnder(last.in[i], last.key)})

C2_Witness ==
  /\ last.op = "one" /\ last.deep /\ last.key = "a"
  /\ last.in = <<20, 8>>
  /\ last.out = <<21, 22, 10>>

\* C3: all(deep=True) returns every value stored under any key of any
\* object reachable from the items, each as many times as it occurs in the
\* tree and no more.
C3_AllDeepMultiplicity ==
  (last.op = "all" /\ last.deep) =>
    /\ last.exc = ""
    /\ \A v \in Nodes :
         Count(last.out, v) =
           Cardinality({i \in 1 .. Len(last.in) : v \in StoredAny(last.in[i])})

\* Python's index rule: idx is in range of a tuple of n items
InRange(idx, n) == idx >= 0 - n /\ idx < n
\* the 1-based position an in-range index denotes
Position(idx, n) == IF idx < 0 THEN n + idx + 1 ELSE idx + 1

IndexList(ix) == IF ix.kind = "int" THEN <<ix.i>> ELSE ix.list

Picked(items, idxs) ==
  Flatten([j \in 1 .. Len(idxs) |->
             IF InRange(idxs[j], Len(items))
             THEN <<items[Position(idxs[j], Len(items))]>> ELSE <<>>])

\* C5: i and el with an int or a list of ints never raise for an index out
\* of range: per supplied index, in the supplied order, the item at that
\* index when it is in range and nothing otherwise; el does so on the
\* elements of each index-iterable item in turn and drops the other items.
C5_IndexSafety ==
  (last.op \in {"i", "el"} /\ last.ix.kind \in {"int", "list"}) =>
    /\ last.exc = ""
    /\ last.op = "i" => last.out = Picked(last.in, IndexList(last.ix))
    /\ last.op = "el" =>
         last.out = Flatten([m \in 1 .. Len(last.in) |->
                               IF Heap[last.in[m]].t = "arr"
                               THEN Picked(Kids(last.in[m]), IndexList(last.ix))
                               ELSE <<>>])

C5_Witness ==
  /\ last.op = "el" /\ last.ix = ListIdx(<<3, 0 - 1, 2, 1, 0>>)
  /\ last.in = <<2, 1>>
  /\ last.out = <<5, 5, 4, 3>>

\* C7: exp flattens exactly one level: an array item is replaced by its
\* elements in order, every other item is kept in its place, arrays inside
\* an expanded array stay as they are; strings and objects are not split.
C7_ExpOneLevel ==
  last.op = "exp" =>
    /\ last.exc = ""
    /\ last.out = Flatten([i \in 1 .. Len(last.in) |->
                             IF Heap[last.in[i]].t = "arr"
                             THEN Kids(last.in[i]) ELSE <<last.in[i]>>])

C7_Witness ==
  /\ last.op = "exp"
  /\ last.in = <<15, 14>>
  /\ last.out = <<16, 18, 14>>

PrefixItems(q, in) == exec_jpath(Prefixes[q.x], q.tab, Root(in)).val.items

\* the value a literal token denotes, and Python's symbol of an operator token
LiteralValue(tok) ==
  IF tok.type = "INT" THEN RInt(tok.n)
  ELSE IF tok.type = "STRING" THEN RStr(<<TChars(tok.s)>>)
  ELSE IF tok.type = "TRUE" THEN RBool(TRUE)
  ELSE IF tok.type = "FALSE" THEN RBool(FALSE)
  ELSE RNone
SymbolOf(tok) == IF tok.type = "EQ" THEN "==" ELSE tok.s

IsTrue(r) == r.t # "exc" /\ Truthy(r)
FirstCompares(f, op, c) ==
  f # <<>> /\ IsTrue(CompareOp(SymbolOf(op), RNode(f[1]), LiteralValue(c)))
\* the items v of xs for which the first item of @."k" on v compares to c
RECURSIVE Comparing(_, _, _, _)
Comparing(xs, k, op, c) ==
  IF xs = <<>> THEN <<>>
  ELSE (IF FirstCompares(SelOne(<<Head(xs)>>, k, FALSE).out, op, c)
        THEN <<Head(xs)>> ELSE <<>>) \o Comparing(Tail(xs), k, op, c)

\* C1: X[@."k" op c] gives, in their order, exactly the items v of X for which
\* the first item of @."k" taken on v compares to the literal c as op says.
C1_FilterCompares ==
  last.q.fam = "cmp" =>
    /\ last.exc = ""
    /\ last.out = Comparing(PrefixItems(last.q, last.in), last.q.k, last.q.op, last.q.c)

HasFilter(code) == \E j \in 1 .. Len(code) : code[j].k = "filter("
LastPiece(code) == IF code = <<>> THEN TRoot ELSE code[Len(code)]

\* C4: with n a non-negative integer literal, X[n] is i(n) on X and X.[n] is
\* el(n) on X, and neither is turned into a filter.
C4_IntegerPick ==
  (last.q.fam = "pick" /\ last.q.list[1] >= 0) =>
    /\ last.exc = ""
    /\ ~HasFilter(last.code)
    /\ IF last.q.form = "i"
       THEN /\ LastPiece(last.code) = TI(IntIdx(last.q.list[1]))
            /\ last.out = SelI(PrefixItems(last.q, last.in), IntIdx(last.q.list[1])).out
       ELSE /\ LastPiece(last.code) = TEl(IntIdx(last.q.list[1]))
            /\ last.out = SelEl(PrefixItems(last.q, last.in), IntIdx(last.q.list[1])).out

\* $[1] on the selection ([3,4,5], {..}) picked the second item, where the
\* filter lambda : 1 would have kept both
C4_Witness ==
  /\ last.op = "exec_jpath" /\ last.q.fam = "pick" /\ last.q.form = "i"
  /\ last.q.x = 1 /\ last.q.list = <<1>>
  /\ last.in = <<2, 1>> /\ last.out = <<1>>

HasNegative(xs) == \E j \in 1 .. Len(xs) : xs[j] < 0

\* C6: the text form X.[n1,n2,...] takes non-negative integer literals only:
\* with a negative one among them the query is a JPathSyntaxError, without
\* one it gives what el([n1,n2,...]) gives on X.
C6_ListPickNonNegative ==
  (last.q.fam = "list" /\ last.q.form = "el") =>
    IF HasNegative(last.q.list)
    THEN last.exc = "JPathSyntaxError"
    ELSE /\ last.exc = ""
         /\ last.out = SelEl(PrefixItems(last.q, last.in), ListIdx(last.q.list)).out

\* $.."a".[3,-1,2,1,0] on {"a":[1,2,3],"b":{"a":1}} was refused
C6_Witness ==
  /\ last.op = "exec_jpath" /\ last.q.fam = "list" /\ last.q.form = "el"
  /\ last.q.list = <<3, 0 - 1, 2, 1, 0>> /\ last.in = <<1>>
  /\ last.exc = "JPathSyntaxError"

\* C6 as the specification states it: X.[n1,n2,...] gives what el([n1,n2,...])
\* gives on X, negative indices included.
C6_ListPickAsEl ==
  (last.q.fam = "list" /\ last.q.form = "el") =>
    /\ last.exc = ""
    /\ last.out = SelEl(PrefixItems(last.q, last.in), ListIdx(last.q.list)).out

\* C9: a query that calls a name that is no function of the table fails with
\* JPathFunctionError, inside a filter predicate as well.
C9_UnknownFunction ==
  (last.q.fam = "call" /\ last.q.fn \notin last.q.tab.callable) =>
    last.exc = "JPathFunctionError"

\* $[*][ver(@)] with ver an attribute that is not callable, on a selection
\* with items to filter
C9_Witness ==
  /\ last.op = "exec_jpath" /\ last.q.fam = "call" /\ last.q.form = "filter"
  /\ last.q.fn = "ver" /\ last.q.tab = CustomTable
  /\ last.in = <<2>> /\ last.exc = "JPathFunctionError"

\* the value of the argument arg of a call, evaluated on the selection in
ValueOfParsed(res, in) ==
  IF res.ok /\ res.pv.t # "str" THEN Outcome("", ValueOf(res.pv), <<>>)
  ELSE Eval(res, Root(in), Root(in))
ArgumentValue(q, in) == ValueOfParsed(Parse(q.arg, "expressionstr", q.tab), in)
Received(a) == IF a.exc # "" THEN RExc(a.exc) ELSE GetValue(a.val)
GetWith(xs, idx) ==
  IF idx.t = "exc" THEN idx ELSE LibCall("get", RSel(xs, <<>>), <<idx>>)
Agrees(rec, e) ==
  IF e.t = "exc" THEN rec.exc = "JPathFunctionError"
  ELSE rec.exc = "" /\ rec.val = e

\* C10: get(X, arg) works on the value of arg: the first item of the selection
\* when arg is a jpath, the value of the expression otherwise.
C10_ArgumentsEvaluated ==
  last.q.fam = "arg" =>
    Agrees(last, GetWith(PrefixItems(last.q, last.in),
                         Received(ArgumentValue(last.q, last.in))))

\* the exception a query raises before any handler of the entry point
RawExc(q, in) == ParseAndExec(q.toks, q.start, q.tab, Root(in), Root(in)).exc
Delivered(raw) == IF raw \in JPathErrors \cup {""} THEN raw ELSE "JPathFunctionError"

\* C11: an error of a function call that reaches the caller is a
\* JPathFunctionError unless it is of the JPath family already, which passes
\* unchanged; through exec_jpath_func and through exec_jpath_filter alike.
C11_FunctionErrorsWrapped ==
  last.q.fam = "raise" => last.exc = Delivered(RawExc(last.q, last.in))

\* C12: a library function called with a first argument that is no selection
\* raises JPathFunctionError, also when a query writes a scalar literal there.
C12_ScalarFirstArgument ==
  last.q.fam = "scalar" => last.exc = "JPathFunctionError"

(***************************************************************************)
(* Properties of the selection objects.                                    *)
(***************************************************************************)
\* C13: whatever the root selection R holds, no item included, the root of
\* every selection made by one, all, el, i, exp, filter, call4each and the
\* union from R is the object R itself
C13_RootIsR == \A j \in 1 .. Len(objs) : j = 1 \/ j = Len(objs) => objs[j].root = 1

C15_SourceKept ==
  [][/\ last'.exc = "" => Len(objs') > Len(objs)
     /\ SubSeq(objs', 1, Len(objs)) = objs
     /\ Len(objs') > Len(objs) => objs'[Len(objs')].meta = objs[Len(objs)].meta]_vars

\* a selection made by an operator from a root whose type sets are not the
\* default ones
C15_Witness ==
  /\ Len(objs) > 1
  /\ objs[1].meta # MetaOf(NoKw)
  /\ last.op # "new"
  /\ last.out # <<>>
  /\ Self.meta = objs[1].meta

\* the operands of the union that gave the newest object
Left == objs[Len(objs) - 2]
Right == objs[Len(objs) - 1]

SameBag(a, b) == \A v \in Range(a) \cup Range(b) : Count(a, v) = Count(b, v)

SubBag(a, b) == \A v \in Range(a) : Count(a, v) <= Count(b, v)

\* C20: the items of S.one(k) occur at least as often in S.one(k, deep=True),
\* and the items of S.all() in S.all(deep=True)
C20_DeepContainsShallow ==
  /\ last.op = "one" /\ ~last.deep
       => SubBag(last.out, SelOne(last.in, last.key, TRUE).out)
  /\ last.op = "all" /\ ~last.deep
       => SubBag(last.out, SelAll(last.in, TRUE).out)

\* a shallow selection that gave items, fewer than the deep one gives
C20_Witness ==
  /\ last.op \in {"one", "all"}
  /\ ~last.deep
  /\ last.out # <<>>
  /\ Len(last.out) <
       Len(IF last.op = "one" THEN SelOne(last.in, last.key, TRUE).out
           ELSE SelAll(last.in, TRUE).out)

(***************************************************************************)
(* Properties of expressions.                                              *)
(***************************************************************************)
\* the items of the selection an operand jpath denotes
OperandItems(x, in) ==
  exec_jpath(OperandPaths[x], DefaultTable, Root(in)).val.items

\* the first item of the selection
FirstOf(items) == RNode(items[1])

\* the operator applied to two values
Operated(op, a, b) ==
  IF op.type \in {"EQ", "LT"} THEN CompareOp(SymbolOf(op), a, b)
  ELSE Arith(SymbolOf(op), a, b)

\* the value of the expression when each jpath stands for its first item
Coerced(q, in) ==
  IF q.form = "left"
  THEN Operated(q.op, FirstOf(OperandItems(q.x, in)), LiteralValue(q.c))
  ELSE IF q.form = "right"
  THEN Operated(q.op, LiteralValue(q.c), FirstOf(OperandItems(q.x, in)))
  ELSE Operated(q.op, FirstOf(OperandItems(q.x, in)),
                FirstOf(OperandItems(q.list[1], in)))

\* the selections of the jpaths in the expression hold an item
HasFirst(q, in) ==
  /\ OperandItems(q.x, in) # <<>>
  /\ q.form = "both" => OperandItems(q.list[1], in) # <<>>

\* C16: in J op c, c op J and J op J' every jpath stands for the first item
\* of its selection: the expression has the value of the operator applied to
\* these items; $.."a".[1] = 2 on {"a":[1,2,3],"b":{"a":1}} is true
C16_OperandsCoerced ==
  last.q.fam = "operand" /\ HasFirst(last.q, last.in) =>
    /\ last.exc = ""
    /\ last.val = Coerced(last.q, last.in)

\* Python's and, or on two values
Logic(op, a, b) ==
  IF op.type = "AND" THEN (IF Truthy(a) THEN b ELSE a)
  ELSE (IF Truthy(a) THEN a ELSE b)

\* C17: A op1 B op2 C, op1 and op2 among and, or, has the value of
\* (A op1 B) op2 C
C17_LogicLeftToRight ==
  last.q.fam = "logic" =>
    /\ last.exc = ""
    /\ last.val = Logic(last.q.toks[4],
                        Logic(last.q.toks[2], LiteralValue(last.q.toks[1]),
                              LiteralValue(last.q.toks[3])),
                        LiteralValue(last.q.toks[5]))

\* C18: a op1 b op2 c, op1 and op2 comparisons, has the value of
\* (a op1 b) op2 c, the Bool of the first comparison compared with c
C18_ComparisonsLeftToRight ==
  last.q.fam = "chain" =>
    /\ last.exc = ""
    /\ last.val = CompareOp(SymbolOf(last.q.toks[4]),
                            CompareOp(SymbolOf(last.q.toks[2]),
                                      LiteralValue(last.q.toks[1]),
                                      LiteralValue(last.q.toks[3])),
                            LiteralValue(last.q.toks[5]))

\* an operator between two literals disagrees with their types
Mismatch(q, in) ==
  IF q.fam = "mismatch"
  THEN Operated(q.op, LiteralValue(q.toks[1]), LiteralValue(q.c)).t = "exc"
  ELSE /\ q.fam = "operand"
       /\ \/ ~HasFirst(q, in)
          \/ Coerced(q, in).t = "exc"

\* C23: outside a filter, an arithmetic or comparison expression whose
\* operands disagree in type (an empty selection, a first item that is no
\* scalar, a string ordered against a number) fails with an error of the
\* JPathError family
C23_MismatchIsJPathError ==
  last.op = "exec_jpath_filter" /\ Mismatch(last.q, last.in) =>
    last.exc \in JPathErrors

\* the step is a call in the root session
RootCall == last'.op \in Made4 \cup {"setroot"}

\* the root of every selection there was is as before, but for the selection
\* setroot was called on
RootsKept ==
  \A o \in 1 .. Len(objs) :
    \/ last'.op = "setroot" /\ last'.self = o
    \/ objs'[o].root = objs[o].root

\* the selection setroot was called on has the root given
RootSet == last'.op = "setroot" => objs'[last'.self].root = last'.root

\* the selection made from s has the root of s, and the predicate of a
\* filter on s was called with it
RootTaken ==
  last'.op \in Made4 /\ last'.exc = "" /\ objs[objs[last'.self].root].items # <<>> =>
    /\ Len(objs') = Len(objs) + 1
    /\ objs'[Len(objs')].root = objs[last'.self].root
    /\ last'.op = "filter" /\ last'.in # <<>> => last'.root = objs[last'.self].root

\* C25: setroot(r) on s makes r the root of s; whatever is made from s takes
\* the root s has then, r when r holds an item, and a predicate of filter on
\* s is called with it; the selections made before keep their root, and no
\* other call changes the root of a selection there is
C25_RootSticky == [][RootCall => RootsKept /\ RootSet /\ RootTaken]_vars

\* a selection has been made from the first selection, whose root was set
\* to the second, which holds an item, and has that root
C25_Witness ==
  /\ last.op \in Made4 /\ last.exc = "" /\ last.self = 1
  /\ objs[1].root = 2 /\ objs[2].items # <<>>
  /\ Len(objs) = 3 /\ objs[3].root = 2

\* the values under the key k of the objects that the value n is, or holds
\* as an element of an array at any depth, in the order of the elements
RECURSIVE UnderKey(_, _)
UnderKey(n, k) ==
  IF Heap[n].t = "arr"
  THEN Flatten([j \in 1 .. Len(Heap[n].kids) |-> UnderKey(Heap[n].kids[j], k)])
  ELSE IF Heap[n].t = "obj" /\ HasKey(n, k) THEN <<GetKey(n, k)>>
  ELSE <<>>

\* C26: one(k) without deep goes through the arrays of an item to any depth
\* and selects, in the order of the elements, the value under k of every
\* object it meets; it goes into no value of an object, and scalars and
\* strings give nothing
C26_ShallowThroughArrays ==
  last.op = "one" /\ ~last.deep =>
    /\ last.exc = ""
    /\ last.out = Flatten([j \in 1 .. Len(last.in) |-> UnderKey(last.in[j], last.key)])

\* one(k) has selected from an object in an array in an array of an item
C26_Witness ==
  /\ last.op = "one" /\ ~last.deep /\ last.out # <<>>
  /\ \E j \in 1 .. Len(last.in) :
        /\ Heap[last.in[j]].t = "arr"
        /\ \E a \in Range(Heap[last.in[j]].kids) :
              /\ Heap[a].t = "arr"
              /\ \E b \in Range(Heap[a].kids) :
                    Heap[b].t = "obj" /\ HasKey(b, last.key)

\* the selection X of a query X[...] on the selection built on in
PrefixOf(q, in) == exec_jpath(Prefixes[q.x], q.tab, Root(in)).val

\* the predicate of the query evaluated on its own, @ the selection of the
\* item v of X and $ the selection the query runs on
Predicate(q, in, v) ==
  exec_jpath_filter(q.arg, q.tab, Derive(PrefixOf(q, in), <<v>>), Root(in))

\* the items of X that satisfy test
Retained(items, test(_)) ==
  Flatten([j \in 1 .. Len(items) |-> IF test(items[j]) THEN <<items[j]>> ELSE <<>>])

\* the jpath J selects something for the item v
NonEmpty(q, in, v) == Predicate(q, in, v).val.items # <<>>

\* C24: X[J], J a jpath, retains the item v exactly when J with @ the
\* selection of v alone selects something, whatever the values selected
C24_BareFilter ==
  last.q.fam = "bare" /\ last.q.form = "jpath" =>
    /\ last.exc = ""
    /\ last.out = Retained(PrefixOf(last.q, last.in).items,
                           LAMBDA v : NonEmpty(last.q, last.in, v))

\* the predicate holds of the item v
Holds(q, in, v) ==
  Predicate(q, in, v).exc = "" /\ Truthy(Predicate(q, in, v).val)

\* C27: a filter calls its predicate once for every item, at the positions
\* 0 .. n-1 in order, and retains the items it holds of, also when the
\* predicate runs over the selection that is being filtered
C27_OncePerItem ==
  last.q.fam = "bare" =>
    /\ last.exc = ""
    /\ last.calls = [j \in 1 .. Len(PrefixOf(last.q, last.in).items) |-> j - 1]
    /\ last.out = Retained(PrefixOf(last.q, last.in).items,
                           LAMBDA v : Holds(last.q, last.in, v))

\* C30: X."k" and X.."k" select the values under the key named k and no
\* other; the quoted "*" is the key of the one character *, not the wildcard
C30_QuotedKey ==
  last.q.fam = "star" =>
    /\ last.exc = ""
    /\ last.out = SelOne(PrefixOf(last.q, last.in).items, last.q.k, last.q.c.n = 1).out

\* the predicate of the query with $ the selection the query was run on and
\* @ the selection of its item v
HoldsOn(q, v) ==
  /\ exec_jpath_filter(q.arg, q.tab, Derive(SelfValue, <<v>>), SelfValue).exc = ""
  /\ Truthy(exec_jpath_filter(q.arg, q.tab, Derive(SelfValue, <<v>>), SelfValue).val)

\* C29: in one evaluation $ is the same selection inside the predicate of a
\* filter as outside, the selection the query was run on, also when that
\* selection was made from another one
C29_SameRootInFilter ==
  last.op = "exec_jpath" /\ last.q.fam = "root" =>
    /\ last.exc = ""
    /\ last.out = Retained(last.in, LAMBDA v : HoldsOn(last.q, v))

(***************************************************************************)
\* Properties of the text session
(***************************************************************************)
\* a call of the text session has been made
TextCalled == last.op \in {"exec_jpath", "exec_jpath_filter", "exec_jpath_func"}

\* the 1-based line of the character at index at of the text
LineOf(text, at) == 1 + Cardinality({j \in 1 .. at - 1 : text[j] = "\n"})

\* the 0-based column of the character at index at within its line
ColumnOf(text, at) ==
  Cardinality({j \in 1 .. at - 1 : \A k \in j .. at - 1 : text[k] # "\n"})

\* C21: an error raised at an offending token carries the 1-based line of the
\* token and its 0-based column within that line, in multi-line queries too
C21_ErrorPosition ==
  TextCalled /\ last.located =>
    /\ last.lineno = LineOf(last.expr, last.at)
    /\ last.pos = ColumnOf(last.expr, last.at)

\* the text holds characters that match no token rule
Unmatched(text) == Lex(text).err # ""

\* C22: a query text holding characters that match no token rule fails with
\* JPathLexicalError carrying line and position, wherever they stand
C22_LexicalError ==
  TextCalled /\ Unmatched(last.expr) =>
    /\ last.exc = "JPathLexicalError"
    /\ last.located

(***************************************************************************)
(* Properties of the concurrent session.                                   *)
(***************************************************************************)
\* the result of the query of the thread t run alone on the root selection
Alone(t) == exec_jpath(ThreadQuery(t), DefaultTable, Root(sel))

\* C28: a thread that has finished its query has raised nothing and has the
\* result its query gives when it is run alone, whatever the order of the
\* steps of the two threads was
C28_ConcurrentQueries ==
  \A t \in DOMAIN threads :
    threads[t].pc = "done" =>
      threads[t].exc = Alone(t).exc /\ threads[t].out = Alone(t).val.items

====
